---- MODULE Spec2Model ----
(***************************************************************************)
(* Model of the Shire front end (shire-core/src/parser.rs) and of the      *)
(* statement evaluator (shire-core/src/ast/shire_expression.rs).           *)
(*                                                                         *)
(* Texts are sequences of one-character strings, so that the parsers are   *)
(* modelled character by character the way the nom combinators consume     *)
(* their input.  A parser result is a record                               *)
(*     [st |-> "Ok" | "Err" | "Panic", rest |-> text, out |-> value].      *)
(***************************************************************************)
EXTENDS Integers, Sequences, FiniteSets, TLC

VARIABLES form, input, pc, cond_input, hole, result

vars == <<form, input, pc, cond_input, hole, result>>

(***************************************************************************)
(* Characters                                                              *)
(***************************************************************************)
Digits == {"0", "1", "2", "3", "4", "5", "6", "7", "8", "9"}

Lower == <<"a", "b", "c", "d", "e", "f", "g", "h", "i", "j", "k", "l", "m",
           "n", "o", "p", "q", "r", "s", "t", "u", "v", "w", "x", "y", "z">>

Upper == <<"A", "B", "C", "D", "E", "F", "G", "H", "I", "J", "K", "L", "M",
           "N", "O", "P", "Q", "R", "S", "T", "U", "V", "W", "X", "Y", "Z">>

Range(f) == {f[k] : k \in DOMAIN f}

Letters == Range(Lower) \cup Range(Upper)

Spaces == {" ", "\t", "\r", "\n"}

Symbols == {"/", "{", "}", "|", "(", ")", ",", "\"", ":", "-", "$", ".", "*", "_"}

Chars == Digits \cup Letters \cup Spaces \cup Symbols

\* char::is_alphanumeric restricted to the characters of the model
Alphanumeric == Digits \cup Letters

(***************************************************************************)
(* Parser results                                                          *)
(***************************************************************************)
NoOut == [kind |-> "none"]

POk(rest, out) == [st |-> "Ok", rest |-> rest, out |-> out]

PErr == [st |-> "Err", rest |-> <<>>, out |-> NoOut]

PPanic == [st |-> "Panic", rest |-> <<>>, out |-> NoOut]

IsOk(r) == r.st = "Ok"

Drop(i, n) == SubSeq(i, n + 1, Len(i))

Take(i, n) == SubSeq(i, 1, n)

\* length of the longest prefix of i made of characters of S
SpanLen(i, S) ==
    IF \E k \in 1..Len(i) : i[k] \notin S
    THEN (CHOOSE k \in 1..Len(i) : i[k] \notin S /\ \A j \in 1..(k - 1) : i[j] \in S) - 1
    ELSE Len(i)

(***************************************************************************)
(* nom primitives (complete variants)                                      *)
(***************************************************************************)
\* `let (input, x) = p(input)?; k(x)`: an error of p is returned as it is
Then(r, K(_)) == IF r.st = "Ok" THEN K(r) ELSE r

\* a parser whose Err::Error is handled by the caller (opt, alt, the many loops)
Match(r, K(_), otherwise) == IF r.st = "Ok" THEN K(r) ELSE otherwise

SplitAt(i, n) == POk(Drop(i, n), Take(i, n))

\* take_while(pred): the longest prefix satisfying pred, possibly empty
take_while(S, i) == SplitAt(i, SpanLen(i, S))

\* take_while1 / is_not / digit1 / multispace1: the prefix must be non-empty
take_while1(S, i) == IF SpanLen(i, S) = 0 THEN PErr ELSE SplitAt(i, SpanLen(i, S))

is_not(excluded, i) == take_while1(Chars \ excluded, i)

digit1(i) == take_while1(Digits, i)

multispace0(i) == take_while(Spaces, i)

multispace1(i) == take_while1(Spaces, i)

tag(t, i) ==
    IF Len(i) >= Len(t) /\ Take(i, Len(t)) = t THEN POk(Drop(i, Len(t)), t) ELSE PErr

\* delimited(multispace0, tag(t), multispace0)
ws_tag_ws(t, i) ==
    Then(tag(t, multispace0(i).rest), LAMBDA b : POk(multispace0(b.rest).rest, t))

\* delimited(tag(open), is_not(close), tag(close))
delimited_is_not(open, close, i) ==
    Then(tag(<<open>>, i), LAMBDA a :
    Then(is_not({close}, a.rest), LAMBDA b :
    Then(tag(<<close>>, b.rest), LAMBDA c : POk(c.rest, b.out))))

(***************************************************************************)
(* parser.rs: strings                                                      *)
(***************************************************************************)
parse_string(i) == is_not({"|", "\n"}, i)

parse_quoted_string(i) == delimited_is_not("\"", "\"", i)

(***************************************************************************)
(* Option and HashMap                                                      *)
(***************************************************************************)
None == [some |-> FALSE, val |-> NoOut]

Some(v) == [some |-> TRUE, val |-> v]

EmptyMap == [k \in {} |-> NoOut]

\* an insert that keeps an existing entry (entry(k).or_insert(v))
MapInsertKeepFirst(m, k, v) ==
    [x \in (DOMAIN m) \cup {k} |-> IF x \in DOMAIN m THEN m[x] ELSE v]

\* HashMap::insert: an existing entry for the key is replaced
MapInsert(m, k, v) == [x \in (DOMAIN m) \cup {k} |-> IF x = k THEN v ELSE m[x]]

(***************************************************************************)
(* parser.rs: VariableTransform values                                     *)
(***************************************************************************)
Functions(fs) == [kind |-> "Functions", fns |-> fs]

VtString(s) == [kind |-> "String", text |-> s]

VtInteger(n) == [kind |-> "Integer", int |-> n]

PatternAction(p, c) == [kind |-> "PatternAction", pattern |-> p, command |-> c]

Action(c) == [kind |-> "Action", command |-> c]

Case(p, cs, d) == [kind |-> "Case", pattern |-> p, cases |-> cs, default |-> d]

(***************************************************************************)
(* parser.rs: parse_function                                               *)
(***************************************************************************)
\* delimited(char('"'), is_not("\""), char('"'))
quoted_arg(i) == delimited_is_not("\"", "\"", i)

\* the loop of separated_list0(char(','), quoted_arg) after the first element:
\* a separator that consumes nothing is an error, a failing separator or
\* element ends the list before the separator
RECURSIVE arg_list_loop(_, _)
arg_list_loop(i, res) ==
    Match(tag(<<",">>, i),
          LAMBDA sep :
              IF Len(sep.rest) = Len(i) THEN PErr
              ELSE Match(quoted_arg(sep.rest),
                         LAMBDA el : arg_list_loop(el.rest, Append(res, el.out)),
                         POk(i, res)),
          POk(i, res))

\* separated_list0(char(','), quoted_arg)
arg_list(i) ==
    Match(quoted_arg(i), LAMBDA first : arg_list_loop(first.rest, <<first.out>>), POk(i, <<>>))

\* preceded(multispace0, delimited(char('('), arg_list, char(')')))
paren_args(i) ==
    Then(tag(<<"(">>, multispace0(i).rest), LAMBDA a :
    Then(arg_list(a.rest), LAMBDA b :
    Then(tag(<<")">>, b.rest), LAMBDA c : POk(c.rest, b.out))))

\* take_while(is_alphanumeric), then opt(paren_args)
parse_function(i) ==
    Then(take_while(Alphanumeric, i), LAMBDA cmd :
        Match(paren_args(cmd.rest),
              LAMBDA args : POk(args.rest, <<cmd.out, args.out>>),
              POk(cmd.rest, <<cmd.out, <<>> >>)))

(***************************************************************************)
(* parser.rs: parse_pattern_actions                                        *)
(***************************************************************************)
\* function_list_loop with res.insert(0, o) in place of res.push(o)
RECURSIVE function_list_loop_prepend(_, _)
function_list_loop_prepend(i, res) ==
    Match(ws_tag_ws(<<"|">>, i),
          LAMBDA sep :
              IF Len(sep.rest) = Len(i) THEN PErr
              ELSE Match(parse_function(sep.rest),
                         LAMBDA el : function_list_loop_prepend(el.rest, <<el.out>> \o res),
                         POk(i, res)),
          POk(i, res))

\* the loop of separated_list0(ws '|' ws, parse_function) after the first element
RECURSIVE function_list_loop(_, _)
function_list_loop(i, res) ==
    Match(ws_tag_ws(<<"|">>, i),
          LAMBDA sep :
              IF Len(sep.rest) = Len(i) THEN PErr
              ELSE Match(parse_function(sep.rest),
                         LAMBDA el : function_list_loop(el.rest, Append(res, el.out)),
                         POk(i, res)),
          POk(i, res))

\* separated_list0(delimited(multispace0, tag("|"), multispace0), parse_function)
function_list(i) ==
    Match(parse_function(i),
          LAMBDA first : function_list_loop(first.rest, <<first.out>>),
          POk(i, <<>>))

\* delimited(tag("/"), is_not("/"), tag("/"))
regex_literal(i) == delimited_is_not("/", "/", i)

parse_pattern_actions(i) ==
    Then(regex_literal(i), LAMBDA pattern :
    Then(ws_tag_ws(<<"{">>, pattern.rest), LAMBDA open :
    Then(function_list(open.rest), LAMBDA functions :
    Then(ws_tag_ws(<<"}">>, functions.rest), LAMBDA close :
        POk(close.rest, PatternAction(pattern.out, Functions(functions.out)))))))

(***************************************************************************)
(* parser.rs: parse_case_block                                             *)
(***************************************************************************)
\* terminated(separated_pair(quoted key, multispace1, parse_function), multispace0)
case_entry(i) ==
    Then(delimited_is_not("\"", "\"", i), LAMBDA key :
    Then(multispace1(key.rest), LAMBDA sep :
    Then(parse_function(sep.rest), LAMBDA value :
        POk(multispace0(value.rest).rest, <<key.out, value.out>>))))

\* fold_many0(case_entry, || (), |_, (key, value)| cases.insert(key, Action{..})):
\* out is the map `cases` the closure has filled
RECURSIVE case_entries(_, _)
case_entries(i, cases) ==
    Match(case_entry(i),
          LAMBDA e :
              IF Len(e.rest) = Len(i) THEN PErr
              ELSE case_entries(e.rest,
                       MapInsert(cases, e.out[1], Action(Functions(<<e.out[2]>>)))),
          POk(i, cases))

\* opt(terminated(tag("default"), multispace1))
opt_default(i) ==
    Match(tag(<<"d", "e", "f", "a", "u", "l", "t">>, i),
          LAMBDA t : Match(multispace1(t.rest), LAMBDA w : POk(w.rest, Some(t.out)),
                           POk(i, None)),
          POk(i, None))

\* the default function is read and not kept
default_function_dropped(i) ==
    Match(parse_function(i), LAMBDA cmd : POk(cmd.rest, None), POk(i, None))

\* `if let Ok((remaining_input, cmd)) = parse_function(input)`: out is `default`
default_function(i) ==
    Match(parse_function(i),
          LAMBDA cmd : POk(cmd.rest, Some(Functions(<<cmd.out>>))),
          POk(i, None))

parse_case_block(i) ==
    Then(regex_literal(i), LAMBDA pattern :
    Then(ws_tag_ws(<<"{">>, pattern.rest), LAMBDA open :
    Then(case_entries(open.rest, EmptyMap), LAMBDA folded :
    Then(opt_default(folded.rest), LAMBDA keyword :
    Then(default_function(keyword.rest), LAMBDA default :
    Then(ws_tag_ws(<<"}">>, default.rest), LAMBDA close :
        POk(close.rest, Case(pattern.out, folded.out, default.out))))))))

(***************************************************************************)
(* parser.rs: parse_integer                                                *)
(***************************************************************************)
I32Max == 2147483647

DigitValue(c) == CHOOSE d \in 0..9 : ToString(d) = c

\* str::parse::<i32>: checked accumulation; -1 stands for Err(PosOverflow)
RECURSIVE parse_i32(_, _)
parse_i32(digits, acc) ==
    IF digits = <<>> THEN acc
    ELSE IF acc > (I32Max - DigitValue(Head(digits))) \div 10 THEN -1
    ELSE parse_i32(Tail(digits), acc * 10 + DigitValue(Head(digits)))

\* Result::unwrap: Err(PosOverflow) panics
unwrap(rest, value) == IF value = -1 THEN PPanic ELSE POk(rest, value)

\* digit1, then digits.parse::<i32>().unwrap()
parse_integer(i) ==
    Then(digit1(i), LAMBDA digits : unwrap(digits.rest, parse_i32(digits.out, 0)))

(***************************************************************************)
(* parser.rs: parse_variable_value, parse_variable                         *)
(***************************************************************************)
\* alt((parse_pattern_actions, parse_case_block, quoted string, integer)):
\* the first alternative that succeeds; a panic of the last one is not caught
parse_variable_value(i) ==
    Match(parse_pattern_actions(i), LAMBDA a : a,
    Match(parse_case_block(i), LAMBDA b : b,
    Match(parse_quoted_string(i), LAMBDA c : POk(c.rest, VtString(c.out)),
    Then(parse_integer(i), LAMBDA d : POk(d.rest, VtInteger(d.out))))))

parse_variable(i) ==
    Then(delimited_is_not("\"", "\"", multispace0(i).rest), LAMBDA key :
    Then(ws_tag_ws(<<":">>, key.rest), LAMBDA colon :
    Then(parse_variable_value(colon.rest), LAMBDA value :
        POk(value.rest, <<key.out, value.out>>))))

(***************************************************************************)
(* Inputs: written forms and their rendering as text                       *)
(***************************************************************************)
MaxFns == 3

MaxArgs == 2

MaxArms == 2

MaxDigits == 2

SeqsUpTo(S, n) == UNION {[1..k -> S] : k \in 0..n}

RECURSIVE Concat(_)
Concat(ss) == IF ss = <<>> THEN <<>> ELSE Head(ss) \o Concat(Tail(ss))

\* the elements of ss with sep written between neighbours
RECURSIVE Join(_, _)
Join(ss, sep) ==
    IF ss = <<>> THEN <<>>
    ELSE IF Len(ss) = 1 THEN Head(ss)
    ELSE Head(ss) \o sep \o Join(Tail(ss), sep)

Quote(t) == <<"\"">> \o t \o <<"\"">>

FnNames == {<<"s", "o", "r", "t">>, <<"g", "2">>}

ArgTexts == {<<"x">>, <<"}", ",">>}

Regexes == {<<".", "*", ".", "l", "o", "g">>}

CaseKeys == {<<"e", "r", "r">>, <<"w">>}

Gaps == {<<>>, <<" ">>}

\* argument lists as written: neighbouring arguments differ, so that an
\* argument dropped, repeated or exchanged with its neighbour changes the list
ArgLists ==
    {a \in SeqsUpTo(ArgTexts, MaxArgs) : \A k \in 1..(Len(a) - 1) : a[k] # a[k + 1]}

\* a function as written: a name, then nothing or a parenthesised argument list
WrittenFns ==
    [name : FnNames, args : {<<>>}, parens : {FALSE}]
        \cup [name : FnNames, args : ArgLists, parens : {TRUE}]

RenderFn(f) ==
    f.name \o (IF f.parens
               THEN <<"(">> \o Join([k \in 1..Len(f.args) |-> Quote(f.args[k])], <<",">>) \o <<")">>
               ELSE <<>>)

\* the (name, arguments) pair a written function denotes
FnOf(f) == <<f.name, f.args>>

FnsOf(fs) == [k \in 1..Len(fs) |-> FnOf(fs[k])]

\* /re/ { f1 | f2 | ... | fn }
PipelineForms ==
    [kind : {"pipeline"}, re : Regexes, fns : SeqsUpTo(WrittenFns, MaxFns), gap : Gaps]

RenderPipeline(f) ==
    <<"/">> \o f.re \o <<"/">> \o f.gap \o <<"{">> \o f.gap
        \o Join([k \in 1..Len(f.fns) |-> RenderFn(f.fns[k])], f.gap \o <<"|">> \o f.gap)
        \o f.gap \o <<"}">>

\* the functions used in case arms (one written function per arm)
ArmFns ==
    {f \in WrittenFns : Len(f.args) <= 1 /\ \A k \in 1..Len(f.args) : f.args[k] = <<"x">>}

\* /re/ { "k1" f1 ... "kn" fn default g }
CaseForms ==
    [kind : {"case"}, re : Regexes, arms : SeqsUpTo(CaseKeys \X ArmFns, MaxArms),
     default : {None} \cup {Some(g) : g \in ArmFns}]

RenderArm(a) == Quote(a[1]) \o <<" ">> \o RenderFn(a[2]) \o <<" ">>

RenderCase(f) ==
    <<"/">> \o f.re \o <<"/", " ", "{", " ">>
        \o Concat([k \in 1..Len(f.arms) |-> RenderArm(f.arms[k])])
        \o (IF f.default.some
            THEN <<"d", "e", "f", "a", "u", "l", "t", " ">> \o RenderFn(f.default.val) \o <<" ">>
            ELSE <<>>)
        \o <<"}">>

\* /re/ { case "$0" { "k1" { f | g } ... default { f | g } } }
DocPipelines == {p \in SeqsUpTo({f \in ArmFns : ~f.parens}, 2) : Len(p) >= 1}

DocCaseForms ==
    [kind : {"doc_case"}, re : Regexes,
     arms : {a \in SeqsUpTo(CaseKeys \X DocPipelines, MaxArms) : Len(a) >= 1},
     default : DocPipelines]

RenderBraced(p) ==
    <<"{", " ">> \o Join([k \in 1..Len(p) |-> RenderFn(p[k])], <<" ", "|", " ">>) \o <<" ", "}">>

RenderDocArm(a) == Quote(a[1]) \o <<" ">> \o RenderBraced(a[2]) \o <<"\n">>

RenderDocCase(f) ==
    <<"/">> \o f.re \o <<"/", " ", "{", "\n", "c", "a", "s", "e", " ">> \o Quote(<<"$", "0">>)
        \o <<" ", "{", "\n">>
        \o Concat([k \in 1..Len(f.arms) |-> RenderDocArm(f.arms[k])])
        \o <<"d", "e", "f", "a", "u", "l", "t", " ", " ">> \o RenderBraced(f.default)
        \o <<"\n", "}", "\n", "}">>

\* integer literals: a digit prefix close to the 32-bit limit, then up to MaxDigits digits
IntPrefixes == {<<>>, <<"0", "0">>, <<"2", "1", "4", "7", "4", "8", "3", "6">>,
                <<"2", "1", "4", "7", "4", "8", "3", "6", "4">>}

IntForms ==
    {f \in [kind : {"integer"}, prefix : IntPrefixes,
            digits : SeqsUpTo({"0", "4", "7", "8", "9"}, MaxDigits)] :
        Len(f.prefix) + Len(f.digits) >= 1}

RenderInt(f) == f.prefix \o f.digits

StringForms == [kind : {"string"}, text : ArgTexts]

Forms == PipelineForms \cup CaseForms \cup DocCaseForms \cup IntForms \cup StringForms

Render(f) ==
    CASE f.kind = "pipeline" -> RenderPipeline(f)
      [] f.kind = "case" -> RenderCase(f)
      [] f.kind = "doc_case" -> RenderDocCase(f)
      [] f.kind = "integer" -> RenderInt(f)
      [] f.kind = "string" -> Quote(f.text)

(***************************************************************************)
(* The header record                                                       *)
(***************************************************************************)
\* a default record that already shows in the run panel
DefaultHobbitHoleRunPanel ==
    [name |-> <<>>, description |-> None, interaction |-> Some("RunPanel"),
     action_location |-> None, variables |-> EmptyMap]

\* HobbitHole::default()
DefaultHobbitHole ==
    [name |-> <<>>, description |-> None, interaction |-> None,
     action_location |-> None, variables |-> EmptyMap]

NoResult == [st |-> "None", rest |-> <<>>, out |-> NoOut]

(***************************************************************************)
(* Specification of the variable-transform parsers: a text is drawn and    *)
(* one of the parsers is applied to it.                                    *)
(***************************************************************************)
Init ==
    /\ form \in Forms
    /\ input = Render(form)
    /\ pc = "call"
    /\ cond_input = <<>>
    /\ hole = DefaultHobbitHole
    /\ result = NoResult

Call(name, r) ==
    /\ pc = "call"
    /\ pc' = name
    /\ result' = r
    /\ UNCHANGED <<form, input, cond_input, hole>>

CallParsePatternActions == Call("parse_pattern_actions", parse_pattern_actions(input))

CallParseCaseBlock == Call("parse_case_block", parse_case_block(input))

CallParseInteger == Call("parse_integer", parse_integer(input))

CallParseVariableValue == Call("parse_variable_value", parse_variable_value(input))

Next ==
    \/ CallParsePatternActions
    \/ CallParseCaseBlock
    \/ CallParseInteger
    \/ CallParseVariableValue

Spec == Init /\ [][Next]_vars

(***************************************************************************)
(* parser.rs: the enumerations of the header                               *)
(***************************************************************************)
\* str::to_lowercase on the characters of the model
LowerChar(c) == IF \E k \in 1..26 : Upper[k] = c THEN Lower[CHOOSE k \in 1..26 : Upper[k] = c] ELSE c

to_lowercase(t) == [k \in 1..Len(t) |-> LowerChar(t[k])]

\* InteractionType::from
InteractionType_match(interaction) ==
    CASE interaction = <<"a", "p", "p", "e", "n", "d", "c", "u", "r", "s", "o", "r">> -> "AppendCursor"
      [] interaction = <<"a", "p", "p", "e", "n", "d", "c", "u", "r", "s", "o", "r", "s", "t", "r", "e", "a", "m">> -> "AppendCursorStream"
      [] interaction = <<"o", "u", "t", "p", "u", "t", "f", "i", "l", "e">> -> "OutputFile"
      [] interaction = <<"r", "e", "p", "l", "a", "c", "e", "s", "e", "l", "e", "c", "t", "i", "o", "n">> -> "ReplaceSelection"
      [] interaction = <<"r", "e", "p", "l", "a", "c", "e", "c", "u", "r", "r", "e", "n", "t", "f", "i", "l", "e">> -> "ReplaceCurrentFile"
      [] interaction = <<"i", "n", "s", "e", "r", "t", "b", "e", "f", "o", "r", "e", "s", "e", "l", "e", "c", "t", "i", "o", "n">> -> "InsertBeforeSelection"
      [] interaction = <<"r", "u", "n", "p", "a", "n", "e", "l">> -> "RunPanel"
      [] interaction = <<"o", "n", "p", "a", "s", "t", "e">> -> "OnPaste"
      [] OTHER -> "RunPanel"

\* a match on the text as written
InteractionType_from_as_written(interaction) == InteractionType_match(interaction)

InteractionType_from(interaction) == InteractionType_match(to_lowercase(interaction))

\* a match that falls back to the first location of the listing
ShireActionLocation_from_listing_default(action_location) ==
    CASE action_location = <<"C", "o", "n", "t", "e", "x", "t", "M", "e", "n", "u">> -> "ContextMenu"
      [] action_location = <<"I", "n", "t", "e", "n", "t", "i", "o", "n", "M", "e", "n", "u">> -> "IntentionMenu"
      [] action_location = <<"T", "e", "r", "m", "i", "n", "a", "l", "M", "e", "n", "u">> -> "TerminalMenu"
      [] action_location = <<"C", "o", "m", "m", "i", "t", "M", "e", "n", "u">> -> "CommitMenu"
      [] action_location = <<"R", "u", "n", "P", "a", "n", "e", "l">> -> "RunPanel"
      [] action_location = <<"I", "n", "p", "u", "t", "B", "o", "x">> -> "InputBox"
      [] OTHER -> "ContextMenu"

\* ShireActionLocation::from
ShireActionLocation_from(action_location) ==
    CASE action_location = <<"C", "o", "n", "t", "e", "x", "t", "M", "e", "n", "u">> -> "ContextMenu"
      [] action_location = <<"I", "n", "t", "e", "n", "t", "i", "o", "n", "M", "e", "n", "u">> -> "IntentionMenu"
      [] action_location = <<"T", "e", "r", "m", "i", "n", "a", "l", "M", "e", "n", "u">> -> "TerminalMenu"
      [] action_location = <<"C", "o", "m", "m", "i", "t", "M", "e", "n", "u">> -> "CommitMenu"
      [] action_location = <<"R", "u", "n", "P", "a", "n", "e", "l">> -> "RunPanel"
      [] action_location = <<"I", "n", "p", "u", "t", "B", "o", "x">> -> "InputBox"
      [] OTHER -> "RunPanel"

\* a conversion that takes an unknown key for a description
HobbitHoleKey_from_unknown_description(key) ==
    CASE key = <<"n", "a", "m", "e">> -> "Name"
      [] key = <<"d", "e", "s", "c", "r", "i", "p", "t", "i", "o", "n">> -> "Description"
      [] key = <<"i", "n", "t", "e", "r", "a", "c", "t", "i", "o", "n">> -> "Interaction"
      [] key = <<"a", "c", "t", "i", "o", "n", "L", "o", "c", "a", "t", "i", "o", "n">> -> "ActionLocation"
      [] key = <<"v", "a", "r", "i", "a", "b", "l", "e", "s">> -> "Variables"
      [] OTHER -> "Description"

\* impl From<&str> for HobbitHoleKey
HobbitHoleKey_from(key) ==
    CASE key = <<"n", "a", "m", "e">> -> "Name"
      [] key = <<"d", "e", "s", "c", "r", "i", "p", "t", "i", "o", "n">> -> "Description"
      [] key = <<"i", "n", "t", "e", "r", "a", "c", "t", "i", "o", "n">> -> "Interaction"
      [] key = <<"a", "c", "t", "i", "o", "n", "L", "o", "c", "a", "t", "i", "o", "n">> -> "ActionLocation"
      [] key = <<"v", "a", "r", "i", "a", "b", "l", "e", "s">> -> "Variables"
      [] OTHER -> "Name"

(***************************************************************************)
(* parser.rs: parse_hobbit_hole and parse_file, step by step               *)
(***************************************************************************)
Fence == <<"-", "-", "-">>

\* multispace0, tag("---"), multispace0
parse_frontmatter_start(i) == ws_tag_ws(Fence, i)

\* an end of header that also accepts the end of the input
parse_frontmatter_end_or_eof(i) ==
    IF multispace0(i).rest = <<>> THEN POk(<<>>, NoOut) ELSE ws_tag_ws(Fence, i)

parse_frontmatter_end(i) == ws_tag_ws(Fence, i)

\* fold_many0(terminated(parse_variable, multispace0), HashMap::new, insert):
\* an Err::Error of the element ends the fold, a panic is not caught
RECURSIVE parse_variables(_, _)
parse_variables(i, acc) ==
    Match(parse_variable(i),
          LAMBDA e :
              IF Len(multispace0(e.rest).rest) = Len(i) THEN PErr
              ELSE parse_variables(multispace0(e.rest).rest, MapInsert(acc, e.out[1], e.out[2])),
          IF parse_variable(i).st = "Panic" THEN PPanic ELSE POk(i, acc))

\* the match on the key in the loop of parse_hobbit_hole: the value is parsed
\* and stored in its field; out is the updated record
parse_entry_value(kind, value_input, h) ==
    CASE kind = "Name" ->
           Then(parse_quoted_string(value_input), LAMBDA r :
               POk(r.rest, [h EXCEPT !.name = r.out]))
      [] kind = "Description" ->
           Then(parse_string(value_input), LAMBDA r :
               POk(r.rest, [h EXCEPT !.description = Some(r.out)]))
      [] kind = "Interaction" ->
           Then(parse_string(value_input), LAMBDA r :
               POk(r.rest, [h EXCEPT !.interaction = Some(InteractionType_from(r.out))]))
      [] kind = "ActionLocation" ->
           Then(parse_string(value_input), LAMBDA r :
               POk(r.rest, [h EXCEPT !.action_location = Some(ShireActionLocation_from(r.out))]))
      [] kind = "Variables" ->
           Then(parse_variables(value_input, EmptyMap), LAMBDA r :
               POk(r.rest, [h EXCEPT !.variables = r.out]))

\* an iteration that stays where it was when the value of the key cannot be read
header_entry_retry(i, h) ==
    Then(take_while(Alphanumeric, i), LAMBDA key :
    Then(ws_tag_ws(<<":">>, key.rest), LAMBDA colon :
    Match(parse_entry_value(HobbitHoleKey_from(key.out), colon.rest, h),
          LAMBDA value : POk(multispace0(value.rest).rest, value.out),
          POk(i, h))))

\* one iteration of the while loop of parse_hobbit_hole, up to the break test
header_entry(i, h) ==
    Then(take_while(Alphanumeric, i), LAMBDA key :
    Then(ws_tag_ws(<<":">>, key.rest), LAMBDA colon :
    Then(parse_entry_value(HobbitHoleKey_from(key.out), colon.rest, h), LAMBDA value :
        POk(multispace0(value.rest).rest, value.out))))

starts_with(i, t) == Len(i) >= Len(t) /\ Take(i, Len(t)) = t

\* many1(parse_string): the loop after the first element
RECURSIVE body_lines_loop(_, _)
body_lines_loop(i, acc) ==
    Match(parse_string(i),
          LAMBDA e :
              IF Len(e.rest) = Len(i) THEN PErr
              ELSE body_lines_loop(e.rest, Append(acc, e.out)),
          POk(i, acc))

\* many1(parse_string)
body_lines(i) ==
    Then(parse_string(i), LAMBDA first : body_lines_loop(first.rest, <<first.out>>))

ShireFile(h, b) == [hobbit |-> h, body |-> b]

\* a `?` returns the error, a panic unwinds: the parse stops with that outcome
Failed(p, r) ==
    /\ pc' = IF r.st = "Panic" THEN "panic" ELSE p
    /\ result' = r
    /\ UNCHANGED <<form, input, cond_input, hole>>

Started(r) ==
    IF IsOk(r)
    THEN /\ cond_input' = r.rest
         /\ hole' = DefaultHobbitHole
         /\ pc' = IF r.rest # <<>> THEN "loop" ELSE "end"
         /\ UNCHANGED <<form, input, result>>
    ELSE Failed("hobbit_error", r)

\* parse_hobbit_hole up to the loop: the opening fence and the default record
FrontmatterStart ==
    /\ pc = "start"
    /\ Started(parse_frontmatter_start(input))

Entered(r) ==
    IF IsOk(r)
    THEN /\ cond_input' = r.rest
         /\ hole' = r.out
         /\ pc' = IF starts_with(r.rest, Fence) \/ r.rest = <<>> THEN "end" ELSE "loop"
         /\ UNCHANGED <<form, input, result>>
    ELSE Failed("hobbit_error", r)

\* one iteration of the loop: a key, a colon, the value of the key, the break test
HeaderEntry ==
    /\ pc = "loop"
    /\ Entered(header_entry(cond_input, hole))

Ended(r) ==
    IF IsOk(r)
    THEN /\ cond_input' = r.rest
         /\ result' = POk(r.rest, hole)
         /\ pc' = "hobbit_done"
         /\ UNCHANGED <<form, input, hole>>
    ELSE Failed("hobbit_error", r)

\* after the loop: the closing fence, then parse_hobbit_hole returns the record
FrontmatterEnd ==
    /\ pc = "end"
    /\ Ended(parse_frontmatter_end(cond_input))

BodyParsed(r) ==
    IF IsOk(r)
    THEN /\ cond_input' = r.rest
         /\ result' = POk(r.rest, ShireFile(hole, r.out))
         /\ pc' = "file_done"
         /\ UNCHANGED <<form, input, hole>>
    ELSE Failed("file_error", r)

\* parse_file after parse_hobbit_hole: the body lines
ParseFileBody ==
    /\ pc = "hobbit_done"
    /\ BodyParsed(body_lines(cond_input))

(***************************************************************************)
(* Inputs of the header parser: written files                              *)
(***************************************************************************)
MaxEntries == 2

MaxVars == 3

MaxLines == 2

\* a written header entry: key, then a quoted value, an unquoted run or a variables block
QuotedEntry(k, t) == [key |-> k, shape |-> "quoted", text |-> t, vars |-> <<>>]

RunEntry(k, t) == [key |-> k, shape |-> "run", text |-> t, vars |-> <<>>]

VarsEntry(vs) == [key |-> <<"v", "a", "r", "i", "a", "b", "l", "e", "s">>, shape |-> "vars", text |-> <<>>, vars |-> vs]

SimpleEntries ==
    {QuotedEntry(<<"n", "a", "m", "e">>, <<"S", "u", "m">>),
     QuotedEntry(<<"n", "a", "m", "e">>, <<"N">>),
     QuotedEntry(<<"t", "i", "t", "l", "e">>, <<"T">>),
     RunEntry(<<"d", "e", "s", "c", "r", "i", "p", "t", "i", "o", "n">>, <<"G", "e", "n", " ", "S">>),
     RunEntry(<<"i", "n", "t", "e", "r", "a", "c", "t", "i", "o", "n">>, <<"A", "p", "p", "e", "n", "d", "C", "u", "r", "s", "o", "r">>),
     RunEntry(<<"i", "n", "t", "e", "r", "a", "c", "t", "i", "o", "n">>, <<"o", "n", "P", "A", "S", "T", "E">>),
     RunEntry(<<"a", "c", "t", "i", "o", "n", "L", "o", "c", "a", "t", "i", "o", "n">>, <<"C", "o", "n", "t", "e", "x", "t", "M", "e", "n", "u">>),
     RunEntry(<<"a", "c", "t", "i", "o", "n", "L", "o", "c", "a", "t", "i", "o", "n">>, <<"i", "n", "p", "u", "t", "b", "o", "x">>)}

VarKeys == {<<"v", "1">>, <<"v", "2">>}

\* the written right-hand sides of variables: "x", 47, /.*.log/ { g2("x") }
VarValues ==
    {[kind |-> "string", text |-> <<"x">>],
     [kind |-> "integer", prefix |-> <<>>, digits |-> <<"4", "7">>],
     [kind |-> "pipeline", re |-> <<".", "*", ".", "l", "o", "g">>,
      fns |-> <<[name |-> <<"g", "2">>, args |-> <<<<"x">>>>, parens |-> TRUE]>>,
      gap |-> <<" ">>]}

WrittenVars == [key : VarKeys, value : VarValues]

RenderVar(v) == <<" ", " ">> \o Quote(v.key) \o <<":", " ">> \o Render(v.value) \o <<"\n">>

RenderEntry(e) ==
    e.key \o <<":", " ">>
        \o (CASE e.shape = "quoted" -> Quote(e.text) \o <<"\n">>
              [] e.shape = "run" -> e.text \o <<"\n">>
              [] e.shape = "vars" ->
                    <<"\n">> \o Concat([k \in 1..Len(e.vars) |-> RenderVar(e.vars[k])]))

BodyLines == {<<"$", "v", "1">>, <<"a", " ", "b">>}

FileForm(es, b) == [kind |-> "file", entries |-> es, body |-> b]

\* files without variables, and files whose last entry is a variables block
FileForms ==
    {FileForm(es, b) : es \in SeqsUpTo(SimpleEntries, MaxEntries),
                       b \in SeqsUpTo(BodyLines, MaxLines)}
        \cup {FileForm(pre \o <<VarsEntry(vs)>>, b) :
                  pre \in SeqsUpTo(SimpleEntries, 1), vs \in SeqsUpTo(WrittenVars, MaxVars),
                  b \in SeqsUpTo(BodyLines, 1)}

\* the opening fence, the entries, the closing fence, then the body lines
RenderFile(f) ==
    <<"\n">> \o Fence \o <<"\n">>
        \o Concat([k \in 1..Len(f.entries) |-> RenderEntry(f.entries[k])])
        \o Fence \o <<"\n">>
        \o Concat([k \in 1..Len(f.body) |-> f.body[k] \o <<"\n">>])

\* the names of the interactions and of the action locations as written
InteractionNames ==
    {<<"A", "p", "p", "e", "n", "d", "C", "u", "r", "s", "o", "r">>,
     <<"A", "p", "p", "e", "n", "d", "C", "u", "r", "s", "o", "r", "S", "t", "r", "e", "a", "m">>,
     <<"O", "u", "t", "p", "u", "t", "F", "i", "l", "e">>,
     <<"R", "e", "p", "l", "a", "c", "e", "S", "e", "l", "e", "c", "t", "i", "o", "n">>,
     <<"R", "e", "p", "l", "a", "c", "e", "C", "u", "r", "r", "e", "n", "t", "F", "i", "l", "e">>,
     <<"I", "n", "s", "e", "r", "t", "B", "e", "f", "o", "r", "e", "S", "e", "l", "e", "c", "t", "i", "o", "n">>,
     <<"R", "u", "n", "P", "a", "n", "e", "l">>,
     <<"O", "n", "P", "a", "s", "t", "e">>}

LocationNames ==
    {<<"C", "o", "n", "t", "e", "x", "t", "M", "e", "n", "u">>,
     <<"I", "n", "t", "e", "n", "t", "i", "o", "n", "M", "e", "n", "u">>,
     <<"T", "e", "r", "m", "i", "n", "a", "l", "M", "e", "n", "u">>,
     <<"C", "o", "m", "m", "i", "t", "M", "e", "n", "u">>,
     <<"R", "u", "n", "P", "a", "n", "e", "l">>,
     <<"I", "n", "p", "u", "t", "B", "o", "x">>}

\* the other case of a letter
FlipCase(c) ==
    IF \E k \in 1..26 : Lower[k] = c THEN Upper[CHOOSE k \in 1..26 : Lower[k] = c]
    ELSE IF \E k \in 1..26 : Upper[k] = c THEN Lower[CHOOSE k \in 1..26 : Upper[k] = c]
    ELSE c

\* a name as written, in lower case, in upper case and with one letter in the other case
Spellings(n) ==
    {n, [k \in 1..Len(n) |-> IF n[k] \in Range(Upper) THEN FlipCase(n[k]) ELSE n[k]],
        [k \in 1..Len(n) |-> IF n[k] \in Range(Lower) THEN FlipCase(n[k]) ELSE n[k]]}
        \cup {[n EXCEPT ![k] = FlipCase(n[k])] : k \in 1..Len(n)}

\* values that spell no name: a shortened name, blanks and a hyphen in a name
OtherValues ==
    {<<"x">>,
     <<"R", "u", "n", "P", "a", "n", "e">>,
     <<"A", "p", "p", "e", "n", "d", "C", "u", "r", "s", "o", "r", " ">>,
     <<"O", "n", " ", "P", "a", "s", "t", "e">>,
     <<"A", "p", "p", "e", "n", "d", "-", "C", "u", "r", "s", "o", "r">>,
     <<"C", "o", "n", "t", "e", "x", "t", " ", "M", "e", "n", "u">>}

EnumValues ==
    UNION {Spellings(n) : n \in InteractionNames \cup LocationNames} \cup OtherValues

Key_interaction == <<"i", "n", "t", "e", "r", "a", "c", "t", "i", "o", "n">>

Key_actionLocation == <<"a", "c", "t", "i", "o", "n", "L", "o", "c", "a", "t", "i", "o", "n">>

\* files with a single interaction or actionLocation entry
EnumForms ==
    {FileForm(<<RunEntry(k, t)>>, <<<<"a", " ", "b">>>>) :
        k \in {Key_interaction, Key_actionLocation}, t \in EnumValues}

\* entries with a key outside the recognized set, the value quoted and not,
\* and an entry that starts at the colon
UnknownKeyEntries ==
    {QuotedEntry(<<"x", "2">>, <<"N">>), RunEntry(<<"t", "i", "t", "l", "e">>, <<"T">>),
     QuotedEntry(<<>>, <<"E">>)}

UnknownKeyForms ==
    {FileForm(pre \o <<e>> \o post, <<<<"a", " ", "b">>>>) :
        pre \in SeqsUpTo(SimpleEntries, 1), e \in UnknownKeyEntries,
        post \in SeqsUpTo(SimpleEntries, 1)}

\* a header whose text ends after the last value: no closing fence, no body
OpenForm(es) == [kind |-> "open", entries |-> es, body |-> <<>>]

OpenForms ==
    {OpenForm(es) : es \in SeqsUpTo(SimpleEntries, MaxEntries)}
        \cup {OpenForm(<<VarsEntry(vs)>>) : vs \in SeqsUpTo(WrittenVars, 1)}

HeaderForms == FileForms \cup EnumForms \cup UnknownKeyForms \cup OpenForms

\* what is written after the entries
Closing(f) ==
    IF f.kind = "file"
    THEN Fence \o <<"\n">> \o Concat([k \in 1..Len(f.body) |-> f.body[k] \o <<"\n">>])
    ELSE <<>>

\* the text from entry k on
RestFrom(f, k) ==
    Concat([j \in 1..(Len(f.entries) - k + 1) |-> RenderEntry(f.entries[k + j - 1])])
        \o Closing(f)

RenderHeader(f) == <<"\n">> \o Fence \o <<"\n">> \o RestFrom(f, 1)

(***************************************************************************)
(* Specification of parse_file: a written file is drawn and parsed         *)
(***************************************************************************)
InitHeader ==
    /\ form \in HeaderForms
    /\ input = RenderHeader(form)
    /\ pc = "start"
    /\ cond_input = <<>>
    /\ hole = DefaultHobbitHole
    /\ result = NoResult

NextHeader ==
    \/ FrontmatterStart
    \/ HeaderEntry
    \/ FrontmatterEnd
    \/ ParseFileBody

SpecHeader == InitHeader /\ [][NextHeader]_vars

(***************************************************************************)
(* ast/front_matter_type.rs and ast/shire_expression.rs: values            *)
(***************************************************************************)
\* FrontMatterType
FM_STRING(t) == [fm |-> "STRING", text |-> t]

FM_VARIABLE(n) == [fm |-> "VARIABLE", text |-> n]

FM_DATE(t) == [fm |-> "DATE", text |-> t]

FM_NUMBER(n) == [fm |-> "NUMBER", num |-> n]

FM_BOOLEAN(b) == [fm |-> "BOOLEAN", bool |-> b]

FM_EMPTY == [fm |-> "EMPTY"]

\* the characters of the model in the order of their code points
CodeOrder ==
    <<"\t", "\n", "\r", " ", "\"", "$", "(", ")", "*", ",", "-", ".", "/">>
        \o <<"0", "1", "2", "3", "4", "5", "6", "7", "8", "9", ":">>
        \o Upper \o <<"_">> \o Lower \o <<"{", "|", "}">>

Code(c) == CHOOSE k \in 1..Len(CodeOrder) : CodeOrder[k] = c

\* an order in which a proper prefix does not precede the longer text
RECURSIVE TextLessNoPrefix(_, _)
TextLessNoPrefix(a, b) ==
    IF a = <<>> \/ b = <<>> THEN FALSE
    ELSE IF Head(a) # Head(b) THEN Code(Head(a)) < Code(Head(b))
    ELSE TextLessNoPrefix(Tail(a), Tail(b))

\* a < b for String (lexicographic by code point)
RECURSIVE TextLess(_, _)
TextLess(a, b) ==
    IF b = <<>> THEN FALSE
    ELSE IF a = <<>> THEN TRUE
    ELSE IF Head(a) # Head(b) THEN Code(Head(a)) < Code(Head(b))
    ELSE TextLess(Tail(a), Tail(b))

\* Box<dyn Any>: a value together with its concrete type
AnyBool(b) == [ty |-> "bool", bool |-> b]

AnyString(t) == [ty |-> "String", text |-> t]

AnyI32(n) == [ty |-> "i32", num |-> n]

\* a boxed Result<Box<dyn Any>, String>
AnyResult(r) == [ty |-> "Result", res |-> r]

NoAny == [ty |-> "none"]

\* Result<Box<dyn Any>, String>
Ok(a) == [st |-> "Ok", any |-> a, err |-> ""]

Err(m) == [st |-> "Err", any |-> NoAny, err |-> m]

\* OperatorType::display
OperatorType_display(op) ==
    CASE op = "Or" -> <<"|", "|">>
      [] op = "And" -> <<"&", "&">>
      [] op = "Not" -> <<"!">>
      [] op = "Equal" -> <<"=", "=">>
      [] op = "NotEqual" -> <<"!", "=">>
      [] op = "LessThan" -> <<"<">>
      [] op = "GreaterThan" -> <<">">>
      [] op = "LessEqual" -> <<"<", "=">>
      [] op = "GreaterEqual" -> <<">", "=">>

\* StatementType variants
OperatorStmt(op) == [stmt |-> "Operator", type_ |-> op]

Comparison(l, op, r) == [stmt |-> "Comparison", left |-> l, operator |-> op, right |-> r]

LogicalExpression(l, op, r) ==
    [stmt |-> "LogicalExpression", left |-> l, operator |-> op, right |-> r]

NotExpression(s) == [stmt |-> "NotExpression", operand |-> s]

ValueStmt(v) == [stmt |-> "Value", value |-> v]

FM_IDENTIFIER(t) == [fm |-> "IDENTIFIER", text |-> t]

\* StringOperator
StringOperators == {"Contains", "StartsWith", "EndsWith", "Matches"}

StringComparison(variable, op, value) ==
    [stmt |-> "StringComparison", variable |-> variable, operator |-> op, value |-> value]

\* arguments is an Option<Vec<FrontMatterType>>
MethodCall(object_name, method_name, arguments) ==
    [stmt |-> "MethodCall", object_name |-> object_name, method_name |-> method_name,
     arguments |-> arguments]

\* usize
AnyUsize(n) == [ty |-> "usize", num |-> n]

\* a Box<dyn Any> put into a Box<dyn Any>
AnyBox(a) == [ty |-> "Box", inner |-> a]

\* the call did not return: unwrap() on None or Err, or panic!
Panic(m) == [st |-> "Panic", any |-> NoAny, err |-> m]

(***************************************************************************)
(* ast/shire_expression.rs: evaluate                                       *)
(***************************************************************************)
\* variables.get(var).cloned().unwrap_or_else(|| "".to_string())
Lookup(variables, var) == IF var \in DOMAIN variables THEN variables[var] ELSE <<>>

\* impl Statement for Value
Value_evaluate(s, variables) ==
    CASE s.value.fm = "STRING" -> Ok(AnyString(s.value.text))
      [] s.value.fm = "NUMBER" -> Ok(AnyI32(s.value.num))
      [] s.value.fm = "DATE" -> Ok(AnyString(s.value.text))
      [] s.value.fm = "BOOLEAN" -> Ok(AnyBool(s.value.bool))
      [] OTHER -> Err("Unsupported value type")

\* a comparison that takes a logical operator for an inequality
Comparison_evaluate_lenient(s, variables) ==
    IF s.left.fm \notin {"STRING", "VARIABLE"} THEN Err("Unsupported left value type")
    ELSE IF s.right.fm # "STRING" THEN Err("Unsupported right value type")
    ELSE IF s.operator = "Equal"
    THEN Ok(AnyBool((IF s.left.fm = "STRING" THEN s.left.text
                     ELSE Lookup(variables, s.left.text)) = s.right.text))
    ELSE Ok(AnyBool((IF s.left.fm = "STRING" THEN s.left.text
                     ELSE Lookup(variables, s.left.text)) # s.right.text))

\* impl Statement for Comparison
Comparison_evaluate(s, variables) ==
    LET left_value == IF s.left.fm = "STRING" THEN s.left.text
                      ELSE Lookup(variables, s.left.text)
        right_value == s.right.text
        op == s.operator
    IN IF s.left.fm \notin {"STRING", "VARIABLE"} THEN Err("Unsupported left value type")
       ELSE IF s.right.fm # "STRING" THEN Err("Unsupported right value type")
       ELSE CASE op = "Equal" -> Ok(AnyBool(left_value = right_value))
              [] op = "NotEqual" -> Ok(AnyBool(left_value # right_value))
              [] op = "LessThan" -> Ok(AnyBool(TextLess(left_value, right_value)))
              [] op = "GreaterThan" -> Ok(AnyBool(TextLess(right_value, left_value)))
              [] op = "LessEqual" -> Ok(AnyBool(~TextLess(right_value, left_value)))
              [] op = "GreaterEqual" -> Ok(AnyBool(~TextLess(left_value, right_value)))
              [] OTHER -> Err("Invalid comparison operator")

(***************************************************************************)
(* ast/shire_expression.rs: the str and regex operations the evaluator uses *)
(***************************************************************************)
\* str::contains(&String): the text occurs somewhere in value
RECURSIVE str_contains(_, _)
str_contains(value, t) ==
    IF Len(value) < Len(t) THEN FALSE
    ELSE IF SubSeq(value, 1, Len(t)) = t THEN TRUE
    ELSE str_contains(Tail(value), t)

\* str::starts_with(&String)
str_starts_with(value, t) == Len(value) >= Len(t) /\ SubSeq(value, 1, Len(t)) = t

\* str::ends_with(&String)
str_ends_with(value, t) ==
    Len(value) >= Len(t) /\ SubSeq(value, Len(value) - Len(t) + 1, Len(value)) = t

RECURSIVE trim_start(_)
trim_start(t) == IF t # <<>> /\ Head(t) \in Spaces THEN trim_start(Tail(t)) ELSE t

RECURSIVE trim_end(_)
trim_end(t) ==
    IF t # <<>> /\ t[Len(t)] \in Spaces THEN trim_end(SubSeq(t, 1, Len(t) - 1)) ELSE t

\* str::trim
str_trim(t) == trim_end(trim_start(t))

\* str::to_uppercase on the characters of the model
UpperChar(c) == IF \E k \in 1..26 : Lower[k] = c THEN Upper[CHOOSE k \in 1..26 : Lower[k] = c] ELSE c

to_uppercase(t) == [k \in 1..Len(t) |-> UpperChar(t[k])]

\* the characters of the regex patterns of the model: literals, '.', a postfix
\* '*' and '('. A ')' is not among them, so every '(' opens a group that is
\* never closed.
RegexChars == Alphanumeric \cup {" ", ".", "*", "("}

RegexErr == [st |-> "Err", items |-> <<>>]

\* the parse of a pattern into items (a character or '.', starred or not)
RECURSIVE regex_items(_, _)
regex_items(p, acc) ==
    IF p = <<>> THEN [st |-> "Ok", items |-> acc]
    ELSE CASE Head(p) = "(" -> RegexErr
           [] Head(p) = "*" ->
                IF acc = <<>> THEN RegexErr
                ELSE regex_items(Tail(p),
                                 [acc EXCEPT ![Len(acc)] = [ch |-> acc[Len(acc)].ch, star |-> TRUE]])
           [] Head(p) \in RegexChars \ {"(", "*"} ->
                regex_items(Tail(p), Append(acc, [ch |-> Head(p), star |-> FALSE]))

\* regex::Regex::new
Regex_new(p) == regex_items(p, <<>>)

AtomMatches(a, c) == IF a = "." THEN c # "\n" ELSE a = c

\* the items match a prefix of t
RECURSIVE match_here(_, _)
match_here(items, t) ==
    IF items = <<>> THEN TRUE
    ELSE IF Head(items).star
    THEN match_here(Tail(items), t)
         \/ (t # <<>> /\ AtomMatches(Head(items).ch, Head(t)) /\ match_here(items, Tail(t)))
    ELSE t # <<>> /\ AtomMatches(Head(items).ch, Head(t)) /\ match_here(Tail(items), Tail(t))

\* Regex::is_match: a match starting anywhere in t
Regex_is_match(items, t) == \E k \in 0..Len(t) : match_here(items, SubSeq(t, k + 1, Len(t)))

\* i32::to_string
RECURSIVE u32_to_string(_)
u32_to_string(n) ==
    IF n < 10 THEN <<ToString(n)>> ELSE u32_to_string(n \div 10) \o <<ToString(n % 10)>>

i32_to_string(n) == IF n < 0 THEN <<"-">> \o u32_to_string(-n) ELSE u32_to_string(n)

\* FrontMatterType::display
FrontMatterType_display(v) ==
    CASE v.fm = "STRING" -> <<"\"">> \o v.text \o <<"\"">>
      [] v.fm = "NUMBER" -> i32_to_string(v.num)
      [] v.fm = "DATE" -> v.text
      [] v.fm = "BOOLEAN" -> IF v.bool THEN <<"t", "r", "u", "e">> ELSE <<"f", "a", "l", "s", "e">>
      [] v.fm = "EMPTY" -> <<>>
      [] v.fm = "VARIABLE" -> <<"$">> \o v.text
      [] v.fm = "IDENTIFIER" -> v.text

(***************************************************************************)
(* ast/shire_expression.rs: StringComparison and MethodCall                *)
(***************************************************************************)
\* a string comparison that resolves its variable field in the scope
StringComparison_evaluate_lookup(s, variables) ==
    CASE s.operator = "Contains" ->
            Ok(AnyBool(str_contains(Lookup(variables, s.variable), s.value)))
      [] s.operator = "StartsWith" ->
            Ok(AnyBool(str_starts_with(Lookup(variables, s.variable), s.value)))
      [] s.operator = "EndsWith" ->
            Ok(AnyBool(str_ends_with(Lookup(variables, s.variable), s.value)))
      [] s.operator = "Matches" ->
            IF Regex_new(s.value).st = "Ok"
            THEN Ok(AnyBool(Regex_is_match(Regex_new(s.value).items,
                                           Lookup(variables, s.variable))))
            ELSE Err("Invalid regex pattern")

\* impl Statement for StringComparison
StringComparison_evaluate(s, variables) ==
    CASE s.operator = "Contains" -> Ok(AnyBool(str_contains(s.variable, s.value)))
      [] s.operator = "StartsWith" -> Ok(AnyBool(str_starts_with(s.variable, s.value)))
      [] s.operator = "EndsWith" -> Ok(AnyBool(str_ends_with(s.variable, s.value)))
      [] s.operator = "Matches" ->
            IF Regex_new(s.value).st = "Ok"
            THEN Ok(AnyBool(Regex_is_match(Regex_new(s.value).items, s.variable)))
            ELSE Err("Invalid regex pattern")

\* the method names of evaluate_expression
M_length == <<"l", "e", "n", "g", "t", "h">>

M_trim == <<"t", "r", "i", "m">>

M_contains == <<"c", "o", "n", "t", "a", "i", "n", "s">>

M_startsWith == <<"s", "t", "a", "r", "t", "s", "W", "i", "t", "h">>

M_endsWith == <<"e", "n", "d", "s", "W", "i", "t", "h">>

M_lowercase == <<"l", "o", "w", "e", "r", "c", "a", "s", "e">>

M_uppercase == <<"u", "p", "p", "e", "r", "c", "a", "s", "e">>

M_isEmpty == <<"i", "s", "E", "m", "p", "t", "y">>

M_isNotEmpty == <<"i", "s", "N", "o", "t", "E", "m", "p", "t", "y">>

M_first == <<"f", "i", "r", "s", "t">>

M_last == <<"l", "a", "s", "t">>

M_matches == <<"m", "a", "t", "c", "h", "e", "s">>

\* MethodCall::parameters
MethodCall_parameters(s) ==
    IF s.arguments.some
    THEN Some([k \in 1..Len(s.arguments.val) |->
                  IF s.arguments.val[k].fm = "STRING" THEN s.arguments.val[k].text
                  ELSE FrontMatterType_display(s.arguments.val[k])])
    ELSE None

\* parameters.unwrap() and params.get(0).unwrap() both return
has_param(parameters) == parameters.some /\ Len(parameters.val) >= 1

\* evaluate_expression returned the box a
Returned(a) == [st |-> "Ok", any |-> a, err |-> ""]

\* MethodCall::evaluate_expression
MethodCall_evaluate_expression(method_name, parameters, value) ==
    CASE method_name = M_length -> Returned(AnyUsize(Len(value)))
      [] method_name = M_trim -> Returned(AnyString(str_trim(value)))
      [] method_name = M_contains ->
            IF has_param(parameters)
            THEN Returned(AnyBool(str_contains(value, parameters.val[1])))
            ELSE Panic("unwrap")
      [] method_name = M_startsWith ->
            IF has_param(parameters)
            THEN Returned(AnyBool(str_starts_with(value, parameters.val[1])))
            ELSE Panic("unwrap")
      [] method_name = M_endsWith ->
            IF has_param(parameters)
            THEN Returned(AnyBool(str_ends_with(value, parameters.val[1])))
            ELSE Panic("unwrap")
      [] method_name = M_lowercase -> Returned(AnyString(to_lowercase(value)))
      [] method_name = M_uppercase -> Returned(AnyString(to_uppercase(value)))
      [] method_name = M_isEmpty -> Returned(AnyBool(value = <<>>))
      [] method_name = M_isNotEmpty -> Returned(AnyBool(value # <<>>))
      [] method_name = M_first ->
            IF value # <<>> THEN Returned(AnyString(<<Head(value)>>)) ELSE Panic("unwrap")
      [] method_name = M_last ->
            IF value # <<>> THEN Returned(AnyString(<<value[Len(value)]>>)) ELSE Panic("unwrap")
      [] method_name = M_matches ->
            IF ~has_param(parameters) THEN Panic("unwrap")
            ELSE IF Regex_new(parameters.val[1]).st # "Ok" THEN Panic("unwrap")
            ELSE Returned(AnyBool(Regex_is_match(Regex_new(parameters.val[1]).items, value)))
      [] OTHER -> Panic("Unsupported method")

\* what MethodCall::evaluate does with the box of evaluate_expression:
\* Ok(Box::new(..)) puts that Box<dyn Any> into a new box
MethodCall_boxed(r) == IF r.st = "Panic" THEN r ELSE Ok(AnyBox(r.any))

\* impl Statement for MethodCall
MethodCall_evaluate(s, variables) ==
    CASE s.object_name.fm = "STRING" ->
            MethodCall_boxed(MethodCall_evaluate_expression(
                FrontMatterType_display(s.method_name), MethodCall_parameters(s),
                s.object_name.text))
      [] s.object_name.fm = "VARIABLE" ->
            MethodCall_boxed(MethodCall_evaluate_expression(
                FrontMatterType_display(s.method_name), MethodCall_parameters(s),
                Lookup(variables, s.object_name.text)))
      [] OTHER -> Err("Unsupported object name type")

RECURSIVE StatementType_evaluate(_, _)
RECURSIVE LogicalExpression_evaluate(_, _)
RECURSIVE NotExpression_evaluate(_, _)

\* impl Statement for StatementType: every arm boxes what the variant returns,
\* Ok(Box::new(comp.evaluate(variables))), so the box holds a Result
StatementType_evaluate(s, variables) ==
    CASE s.stmt = "Operator" -> Ok(AnyString(OperatorType_display(s.type_)))
      [] s.stmt = "Comparison" -> Ok(AnyResult(Comparison_evaluate(s, variables)))
      [] s.stmt = "LogicalExpression" -> Ok(AnyResult(LogicalExpression_evaluate(s, variables)))
      [] s.stmt = "NotExpression" -> Ok(AnyResult(NotExpression_evaluate(s, variables)))
      [] s.stmt = "Value" -> Ok(AnyResult(Value_evaluate(s, variables)))
      [] s.stmt = "StringComparison" -> Ok(AnyResult(StringComparison_evaluate(s, variables)))
      [] s.stmt = "MethodCall" ->
            IF MethodCall_evaluate(s, variables).st = "Panic"
            THEN MethodCall_evaluate(s, variables)
            ELSE Ok(AnyResult(MethodCall_evaluate(s, variables)))

\* impl Statement for LogicalExpression
LogicalExpression_evaluate(s, variables) ==
    LET left_result == StatementType_evaluate(s.left, variables)
        right_result == StatementType_evaluate(s.right, variables)
    IN IF left_result.st # "Ok" THEN left_result
       ELSE IF left_result.any.ty # "bool" THEN Err("Left operand is not of type bool")
       ELSE IF right_result.st # "Ok" THEN right_result
       ELSE IF right_result.any.ty # "bool" THEN Err("Right operand is not of type bool")
       ELSE CASE s.operator = "And" -> Ok(AnyBool(left_result.any.bool /\ right_result.any.bool))
              [] s.operator = "Or" -> Ok(AnyBool(left_result.any.bool \/ right_result.any.bool))
              [] OTHER -> Err("Invalid logical operator")

\* impl Statement for NotExpression
NotExpression_evaluate(s, variables) ==
    LET operand_result == StatementType_evaluate(s.operand, variables)
    IN IF operand_result.st # "Ok" THEN operand_result
       ELSE IF operand_result.any.ty # "bool" THEN Err("Operand is not of type bool")
       ELSE Ok(AnyBool(~operand_result.any.bool))

\* the evaluate of the variant a StatementType wraps
Variant_evaluate(s, variables) ==
    CASE s.stmt = "Operator" -> Ok(AnyString(OperatorType_display(s.type_)))
      [] s.stmt = "Comparison" -> Comparison_evaluate(s, variables)
      [] s.stmt = "LogicalExpression" -> LogicalExpression_evaluate(s, variables)
      [] s.stmt = "NotExpression" -> NotExpression_evaluate(s, variables)
      [] s.stmt = "Value" -> Value_evaluate(s, variables)
      [] s.stmt = "StringComparison" -> StringComparison_evaluate(s, variables)
      [] s.stmt = "MethodCall" -> MethodCall_evaluate(s, variables)

(***************************************************************************)
(* Inputs of the evaluator: statements and scopes                          *)
(***************************************************************************)
OperatorTypes ==
    {"Or", "And", "Not", "Equal", "NotEqual", "LessThan", "GreaterThan",
     "LessEqual", "GreaterEqual"}

EvalTexts == {<<>>, <<"y">>, <<"z">>}

T_hello == <<"h", "e", "l", "l", "o">>

Scopes ==
    {EmptyMap, [n \in {<<"x">>} |-> <<"y">>], [n \in {<<"x">>} |-> <<"z">>],
     [n \in {<<"x">>} |-> T_hello]}

Comparisons ==
    {Comparison(l, op, r) :
        l \in {FM_STRING(<<"y">>), FM_VARIABLE(<<"x">>), FM_NUMBER(1)},
        op \in OperatorTypes,
        r \in {FM_STRING(<<"y">>), FM_NUMBER(1)}}

Values == {ValueStmt(v) : v \in {FM_STRING(<<"y">>), FM_NUMBER(1), FM_BOOLEAN(TRUE), FM_BOOLEAN(FALSE), FM_EMPTY}}

\* the operands of logical expressions and negations
Operands ==
    {Comparison(l, op, FM_STRING(<<"y">>)) :
        l \in {FM_STRING(<<"z">>), FM_VARIABLE(<<"x">>)}, op \in {"Equal", "LessThan", "And"}}
        \cup {ValueStmt(FM_BOOLEAN(TRUE)), ValueStmt(FM_STRING(<<"y">>)), OperatorStmt("And")}

Logicals == {LogicalExpression(l, op, r) : l \in Operands, op \in {"And", "Or", "Equal"}, r \in Operands}

Nots == {NotExpression(s) : s \in Operands}

Nested ==
    {NotExpression(s) : s \in Nots}
        \cup {LogicalExpression(l, op, r) : l \in Nots, op \in {"And", "Or"}, r \in Nots}

\* comparisons of texts: equal, prefix of one another, differing in case
TextComparisons ==
    {Comparison(l, op, FM_STRING(r)) :
        l \in {FM_STRING(<<>>), FM_STRING(<<"y">>), FM_STRING(<<"y", "a">>), FM_STRING(<<"z">>),
               FM_STRING(<<"Z">>), FM_VARIABLE(<<"x">>), FM_VARIABLE(<<"w">>)},
        op \in OperatorTypes,
        r \in {<<>>, <<"y">>, <<"y", "a">>, <<"z">>, T_hello}}

StringComparisons ==
    {StringComparison(v, op, p) :
        v \in {<<>>, <<"x">>, <<"y">>, T_hello},
        op \in StringOperators,
        p \in {<<>>, <<"x">>, <<"y">>, <<"h", "e">>, <<"e", "l">>, <<"l", "o">>,
               <<"h", ".", "l">>, <<"l", "*", "o">>, <<"(">>, <<"*">>}}

Receivers ==
    {FM_STRING(<<>>), FM_STRING(T_hello), FM_STRING(<<" ", "H", "e", "\n">>),
     FM_VARIABLE(<<"x">>), FM_VARIABLE(<<"w">>), FM_NUMBER(1)}

MethodNames ==
    {M_length, M_trim, M_contains, M_startsWith, M_endsWith, M_lowercase, M_uppercase,
     M_isEmpty, M_isNotEmpty, M_first, M_last, M_matches}

\* method values: the recognized names, an unrecognized name, a name given as
\* a String and no name
Methods ==
    {FM_IDENTIFIER(m) : m \in MethodNames}
        \cup {FM_IDENTIFIER(<<"s", "i", "z", "e">>), FM_STRING(M_trim), FM_EMPTY}

ArgumentLists ==
    {None, Some(<<>>), Some(<<FM_STRING(<<>>)>>), Some(<<FM_STRING(<<"h", "e">>)>>),
     Some(<<FM_STRING(<<"l", "o">>)>>), Some(<<FM_STRING(<<"l", "*", "o">>)>>),
     Some(<<FM_STRING(<<"(">>)>>), Some(<<FM_NUMBER(1)>>), Some(<<FM_BOOLEAN(TRUE)>>),
     Some(<<FM_STRING(<<"y">>), FM_STRING(<<"h", "e">>)>>)}

MethodCalls == {MethodCall(o, m, a) : o \in Receivers, m \in Methods, a \in ArgumentLists}

Statements ==
    {OperatorStmt(op) : op \in OperatorTypes} \cup Comparisons \cup Values
        \cup Logicals \cup Nots \cup Nested
        \cup TextComparisons \cup StringComparisons \cup MethodCalls

EvalForms == {[kind |-> "eval", stmt |-> s, variables |-> v] : s \in Statements, v \in Scopes}

(***************************************************************************)
(* Specification of the evaluator: a statement and a scope are drawn and   *)
(* the statement is evaluated, wrapped in StatementType or directly        *)
(***************************************************************************)
NoEval == [st |-> "None", any |-> NoAny, err |-> ""]

InitEval ==
    /\ form \in EvalForms
    /\ input = <<>>
    /\ pc = "eval"
    /\ cond_input = <<>>
    /\ hole = DefaultHobbitHole
    /\ result = NoEval

Evaluated(name, r) ==
    /\ pc = "eval"
    /\ pc' = name
    /\ result' = r
    /\ UNCHANGED <<form, input, cond_input, hole>>

EvaluateStatementType ==
    Evaluated("StatementType::evaluate", StatementType_evaluate(form.stmt, form.variables))

EvaluateComparison ==
    /\ form.stmt.stmt = "Comparison"
    /\ Evaluated("Comparison::evaluate", Comparison_evaluate(form.stmt, form.variables))

EvaluateValue ==
    /\ form.stmt.stmt = "Value"
    /\ Evaluated("Value::evaluate", Value_evaluate(form.stmt, form.variables))

EvaluateLogicalExpression ==
    /\ form.stmt.stmt = "LogicalExpression"
    /\ Evaluated("LogicalExpression::evaluate",
                 LogicalExpression_evaluate(form.stmt, form.variables))

EvaluateNotExpression ==
    /\ form.stmt.stmt = "NotExpression"
    /\ Evaluated("NotExpression::evaluate", NotExpression_evaluate(form.stmt, form.variables))

EvaluateStringComparison ==
    /\ form.stmt.stmt = "StringComparison"
    /\ Evaluated("StringComparison::evaluate",
                 StringComparison_evaluate(form.stmt, form.variables))

EvaluateMethodCall ==
    /\ form.stmt.stmt = "MethodCall"
    /\ Evaluated("MethodCall::evaluate", MethodCall_evaluate(form.stmt, form.variables))

NextEval ==
    \/ EvaluateStatementType
    \/ EvaluateComparison
    \/ EvaluateValue
    \/ EvaluateLogicalExpression
    \/ EvaluateNotExpression
    \/ EvaluateStringComparison
    \/ EvaluateMethodCall

SpecEval == InitEval /\ [][NextEval]_vars

(***************************************************************************)
(* ast/shire_expression.rs and ast/front_matter_type.rs: display           *)
(***************************************************************************)
\* the remaining StatementType variants
StringOperatorStmt(op) == [stmt |-> "StringOperator", type_ |-> op]

\* PatternActionFunc::ToolchainFunction
ToolchainFunction(func_name, args) ==
    [func |-> "ToolchainFunction", func_name |-> func_name, args |-> args]

Processor(processors) == [stmt |-> "Processor", processors |-> processors]

CaseKeyValue(key, value) == [stmt |-> "CaseKeyValue", key |-> key, value |-> value]

ConditionCase(conditions, cases) ==
    [stmt |-> "ConditionCase", conditions |-> conditions, cases |-> cases]

\* StringOperator::display
StringOperator_display(op) ==
    CASE op = "Contains" -> M_contains
      [] op = "StartsWith" -> M_startsWith
      [] op = "EndsWith" -> M_endsWith
      [] op = "Matches" -> M_matches

\* impl Display for PatternActionFunc, the ToolchainFunction arm
PatternActionFunc_to_string(p) ==
    p.func_name \o <<"(">> \o Join(p.args, <<",", " ">>) \o <<")">>

\* <char as Debug> inside a string: the escapes of the characters of the model
char_escape_debug(c) ==
    CASE c = "\"" -> <<"\\", "\"">>
      [] c = "\\" -> <<"\\", "\\">>
      [] c = "\n" -> <<"\\", "n">>
      [] c = "\r" -> <<"\\", "r">>
      [] c = "\t" -> <<"\\", "t">>
      [] OTHER -> <<c>>

\* <String as Debug>::fmt
str_debug(t) == Quote(Concat([k \in 1..Len(t) |-> char_escape_debug(t[k])]))

\* #[derive(Debug)] on FrontMatterType: format!("{:?}", arg)
FrontMatterType_debug(v) ==
    CASE v.fm = "STRING" -> <<"S", "T", "R", "I", "N", "G">> \o <<"(">> \o str_debug(v.text) \o <<")">>
      [] v.fm = "NUMBER" -> <<"N", "U", "M", "B", "E", "R">> \o <<"(">> \o i32_to_string(v.num) \o <<")">>
      [] v.fm = "DATE" -> <<"D", "A", "T", "E">> \o <<"(">> \o str_debug(v.text) \o <<")">>
      [] v.fm = "BOOLEAN" ->
            <<"B", "O", "O", "L", "E", "A", "N">> \o <<"(">>
                \o (IF v.bool THEN <<"t", "r", "u", "e">> ELSE <<"f", "a", "l", "s", "e">>)
                \o <<")">>
      [] v.fm = "EMPTY" -> <<"E", "M", "P", "T", "Y">>
      [] v.fm = "VARIABLE" -> <<"V", "A", "R", "I", "A", "B", "L", "E">> \o <<"(">> \o str_debug(v.text) \o <<")">>
      [] v.fm = "IDENTIFIER" -> <<"I", "D", "E", "N", "T", "I", "F", "I", "E", "R">> \o <<"(">> \o str_debug(v.text) \o <<")">>

\* the parameters of StatementType::display for a MethodCall: a String as it
\* is, any other argument in its Debug form, joined; no arguments give ""
StatementType_display_parameters(s) ==
    IF s.arguments.some
    THEN Join([k \in 1..Len(s.arguments.val) |->
                  IF s.arguments.val[k].fm = "STRING" THEN s.arguments.val[k].text
                  ELSE FrontMatterType_debug(s.arguments.val[k])],
              <<",", " ">>)
    ELSE <<>>

RECURSIVE StatementType_display(_)

\* StatementType::display
StatementType_display(s) ==
    CASE s.stmt = "Operator" -> OperatorType_display(s.type_)
      [] s.stmt = "StringOperator" -> StringOperator_display(s.type_)
      [] s.stmt = "Comparison" ->
            FrontMatterType_display(s.left) \o <<" ">> \o OperatorType_display(s.operator)
                \o <<" ">> \o FrontMatterType_display(s.right)
      [] s.stmt = "StringComparison" ->
            s.variable \o <<" ">> \o StringOperator_display(s.operator) \o <<" ">> \o s.value
      [] s.stmt = "LogicalExpression" ->
            StatementType_display(s.left) \o <<" ">> \o OperatorType_display(s.operator)
                \o <<" ">> \o StatementType_display(s.right)
      [] s.stmt = "NotExpression" -> <<"!">> \o StatementType_display(s.operand)
      [] s.stmt = "MethodCall" ->
            LET parameters == StatementType_display_parameters(s)
                formatted_parameters ==
                    IF parameters = <<>> THEN <<>> ELSE <<"(">> \o parameters \o <<")">>
                dot_with_target ==
                    IF FrontMatterType_display(s.method_name) = <<>> THEN <<>>
                    ELSE <<".">> \o FrontMatterType_display(s.method_name)
            IN FrontMatterType_display(s.object_name) \o dot_with_target \o formatted_parameters
      [] s.stmt = "Value" -> FrontMatterType_display(s.value)
      [] s.stmt = "Processor" ->
            Join([k \in 1..Len(s.processors) |-> PatternActionFunc_to_string(s.processors[k])],
                 <<" ", "|", " ">>)
      [] s.stmt \in {"CaseKeyValue", "ConditionCase"} ->
            <<"U", "n", "s", "u", "p", "p", "o", "r", "t", "e", "d", " ", "s", "t", "a", "t", "e", "m", "e", "n", "t", " ", "t", "y", "p", "e">>

\* Operator::display
Operator_display(s) == OperatorType_display(s.type_)

\* StringOperatorStatement::display
StringOperatorStatement_display(s) == StringOperator_display(s.type_)

\* Comparison::display
Comparison_display(s) ==
    FrontMatterType_display(s.left) \o <<" ">> \o OperatorType_display(s.operator)
        \o <<" ">> \o FrontMatterType_display(s.right)

\* StringComparison::display
StringComparison_display(s) ==
    s.variable \o <<" ">> \o StringOperator_display(s.operator) \o <<" ">> \o s.value

\* LogicalExpression::display
LogicalExpression_display(s) ==
    StatementType_display(s.left) \o <<" ">> \o OperatorType_display(s.operator)
        \o <<" ">> \o StatementType_display(s.right)

\* NotExpression::display
NotExpression_display(s) == <<"!">> \o StatementType_display(s.operand)

\* MethodCall::display
MethodCall_display(s) ==
    FrontMatterType_display(s.object_name) \o FrontMatterType_display(s.method_name)
        \o (IF MethodCall_parameters(s).some
            THEN <<"(">> \o Join(MethodCall_parameters(s).val, <<",", " ">>) \o <<")">>
            ELSE <<>>)

\* Value::display
Value_display(s) == FrontMatterType_display(s.value)

\* Processor::display
Processor_display(s) ==
    Join([k \in 1..Len(s.processors) |-> PatternActionFunc_to_string(s.processors[k])],
         <<" ", "|", " ">>)

\* CaseKeyValue::display
CaseKeyValue_display(s) ==
    Quote(FrontMatterType_display(s.key)) \o <<" ", "-", ">", " ">>
        \o FrontMatterType_display(s.value)

\* ConditionCase::display
ConditionCase_display(s) ==
    <<"c", "a", "s", "e", " ">>
        \o Quote(Join([k \in 1..Len(s.conditions) |-> FrontMatterType_display(s.conditions[k])],
                      <<",", " ">>))
        \o <<" ", "-", ">", " ">>
        \o Join([k \in 1..Len(s.cases) |-> FrontMatterType_display(s.cases[k])], <<",", " ">>)

\* the display of the variant a StatementType wraps
Variant_display(s) ==
    CASE s.stmt = "Operator" -> Operator_display(s)
      [] s.stmt = "StringOperator" -> StringOperatorStatement_display(s)
      [] s.stmt = "Comparison" -> Comparison_display(s)
      [] s.stmt = "StringComparison" -> StringComparison_display(s)
      [] s.stmt = "LogicalExpression" -> LogicalExpression_display(s)
      [] s.stmt = "NotExpression" -> NotExpression_display(s)
      [] s.stmt = "MethodCall" -> MethodCall_display(s)
      [] s.stmt = "Value" -> Value_display(s)
      [] s.stmt = "Processor" -> Processor_display(s)
      [] s.stmt = "CaseKeyValue" -> CaseKeyValue_display(s)
      [] s.stmt = "ConditionCase" -> ConditionCase_display(s)

(***************************************************************************)
(* Inputs of display: the statements of the evaluator and the other variants *)
(***************************************************************************)
MaxProcessors == 2

MaxConditions == 2

ToolchainFunctions ==
    {ToolchainFunction(<<"g", "2">>, <<>>),
     ToolchainFunction(<<"s", "o", "r", "t">>, <<<<"x">>, <<"y">>>>)}

Processors == {Processor(ps) : ps \in SeqsUpTo(ToolchainFunctions, MaxProcessors)}

CaseValues == {FM_STRING(<<"y">>), FM_NUMBER(1), FM_VARIABLE(<<"x">>), FM_EMPTY}

CaseKeyValues == {CaseKeyValue(k, v) : k \in CaseValues, v \in CaseValues}

ConditionCases ==
    {ConditionCase(cs, ks) : cs \in SeqsUpTo(CaseValues, MaxConditions),
                             ks \in SeqsUpTo(CaseValues, MaxConditions)}

\* method calls whose method value is an empty Identifier
UnnamedMethodCalls ==
    {MethodCall(o, FM_IDENTIFIER(<<>>), a) : o \in Receivers, a \in ArgumentLists}

DisplayStatements ==
    Statements \cup {StringOperatorStmt(op) : op \in StringOperators} \cup Processors
        \cup CaseKeyValues \cup ConditionCases \cup UnnamedMethodCalls

DisplayForms == {[kind |-> "display", stmt |-> s] : s \in DisplayStatements}

(***************************************************************************)
(* Specification of display: a statement is drawn and displayed, wrapped   *)
(* in StatementType or directly                                            *)
(***************************************************************************)
NoText == [st |-> "None", text |-> <<>>]

InitDisplay ==
    /\ form \in DisplayForms
    /\ input = <<>>
    /\ pc = "display"
    /\ cond_input = <<>>
    /\ hole = DefaultHobbitHole
    /\ result = NoText

Displayed(name, t) ==
    /\ pc = "display"
    /\ pc' = name
    /\ result' = [st |-> "Text", text |-> t]
    /\ UNCHANGED <<form, input, cond_input, hole>>

DisplayStatementType == Displayed("StatementType::display", StatementType_display(form.stmt))

DisplayOperator ==
    /\ form.stmt.stmt = "Operator"
    /\ Displayed("Operator::display", Operator_display(form.stmt))

DisplayStringOperatorStatement ==
    /\ form.stmt.stmt = "StringOperator"
    /\ Displayed("StringOperatorStatement::display", StringOperatorStatement_display(form.stmt))

DisplayComparison ==
    /\ form.stmt.stmt = "Comparison"
    /\ Displayed("Comparison::display", Comparison_display(form.stmt))

DisplayStringComparison ==
    /\ form.stmt.stmt = "StringComparison"
    /\ Displayed("StringComparison::display", StringComparison_display(form.stmt))

DisplayLogicalExpression ==
    /\ form.stmt.stmt = "LogicalExpression"
    /\ Displayed("LogicalExpression::display", LogicalExpression_display(form.stmt))

DisplayNotExpression ==
    /\ form.stmt.stmt = "NotExpression"
    /\ Displayed("NotExpression::display", NotExpression_display(form.stmt))

DisplayMethodCall ==
    /\ form.stmt.stmt = "MethodCall"
    /\ Displayed("MethodCall::display", MethodCall_display(form.stmt))

DisplayValue ==
    /\ form.stmt.stmt = "Value"
    /\ Displayed("Value::display", Value_display(form.stmt))

DisplayProcessor ==
    /\ form.stmt.stmt = "Processor"
    /\ Displayed("Processor::display", Processor_display(form.stmt))

DisplayCaseKeyValue ==
    /\ form.stmt.stmt = "CaseKeyValue"
    /\ Displayed("CaseKeyValue::display", CaseKeyValue_display(form.stmt))

DisplayConditionCase ==
    /\ form.stmt.stmt = "ConditionCase"
    /\ Displayed("ConditionCase::display", ConditionCase_display(form.stmt))

NextDisplay ==
    \/ DisplayStatementType
    \/ DisplayOperator
    \/ DisplayStringOperatorStatement
    \/ DisplayComparison
    \/ DisplayStringComparison
    \/ DisplayLogicalExpression
    \/ DisplayNotExpression
    \/ DisplayMethodCall
    \/ DisplayValue
    \/ DisplayProcessor
    \/ DisplayCaseKeyValue
    \/ DisplayConditionCase

SpecDisplay == InitDisplay /\ [][NextDisplay]_vars

(***************************************************************************)
(* Claims about the variable-transform parsers (specification Spec)        *)
(***************************************************************************)

\* C1: for every input /re/ { f1 | ... | fn } with n >= 1 named functions,
\* each with zero or more quoted arguments, parse_pattern_actions returns
\* PatternAction with pattern re and the function list [f1, ..., fn] in
\* written order, each with its arguments in written order.
C1_PipelineInWrittenOrder ==
    (pc = "parse_pattern_actions" /\ form.kind = "pipeline" /\ Len(form.fns) >= 1)
        => /\ result.st = "Ok"
           /\ result.rest = <<>>
           /\ result.out = PatternAction(form.re, Functions(FnsOf(form.fns)))

C1_Witness ==
    /\ pc = "parse_pattern_actions"
    /\ form.kind = "pipeline"
    /\ Len(form.fns) >= 3
    /\ form.fns[1] # form.fns[2]
    /\ form.fns[2] # form.fns[3]
    /\ Len(form.fns[1].args) = 2
    /\ form.fns[1].args[1] # form.fns[1].args[2]
    /\ result.st = "Ok"
    /\ Len(result.out.command.fns) = Len(form.fns)

\* C2: the empty pipeline /re/ { } parses to a PatternAction whose function
\* sequence has length 0.
C2_EmptyPipelineIsEmpty ==
    (pc = "parse_pattern_actions" /\ form.kind = "pipeline" /\ form.fns = <<>>)
        => /\ result.st = "Ok"
           /\ result.out.kind = "PatternAction"
           /\ Len(result.out.command.fns) = 0

\* C3: a case block accepted by parse_case_block has default = Some exactly
\* when a default arm is written in it; without one, default = None.
C3_DefaultOnlyWhenWritten ==
    (pc = "parse_case_block" /\ form.kind = "case" /\ result.st = "Ok")
        => (result.out.default.some <=> form.default.some)

\* C4: the documented case block /re/ { case "$0" { "key" { fn | fn } ...
\* default { fn | fn } } } is accepted by parse_variable_value and yields a
\* Case with that regex, one arm per quoted key and the default arm.
C4_DocumentedCaseAccepted ==
    (pc = "parse_variable_value" /\ form.kind = "doc_case")
        => /\ result.st = "Ok"
           /\ result.out.kind = "Case"
           /\ result.out.pattern = form.re
           /\ DOMAIN result.out.cases = {form.arms[k][1] : k \in 1..Len(form.arms)}
           /\ result.out.default.some

\* the written digits without their leading zeros
RECURSIVE StripZeros(_)
StripZeros(d) == IF d # <<>> /\ Head(d) = "0" THEN StripZeros(Tail(d)) ELSE d

\* d < e for digit texts of the same length
RECURSIVE DigitsLess(_, _)
DigitsLess(d, e) ==
    IF d = <<>> THEN FALSE
    ELSE IF Head(d) # Head(e) THEN DigitValue(Head(d)) < DigitValue(Head(e))
    ELSE DigitsLess(Tail(d), Tail(e))

I32MaxDigits == <<"2", "1", "4", "7", "4", "8", "3", "6", "4", "7">>

\* the literal denotes a value in [-2^31, 2^31 - 1] (a literal has no sign)
LiteralInRange(f) ==
    LET d == StripZeros(f.prefix \o f.digits)
    IN Len(d) < Len(I32MaxDigits)
           \/ (Len(d) = Len(I32MaxDigits) /\ (d = I32MaxDigits \/ DigitsLess(d, I32MaxDigits)))

\* the value an in-range literal denotes
RECURSIVE Magnitude(_)
Magnitude(d) ==
    IF d = <<>> THEN 0 ELSE Magnitude(Take(d, Len(d) - 1)) * 10 + DigitValue(d[Len(d)])

LiteralValue(f) == Magnitude(f.prefix \o f.digits)

\* C6: an integer literal with a value in [-2^31, 2^31 - 1] parses to that
\* value; a literal outside the range yields an error value (no wrap, no abort).
C6_IntegerInRangeOrError ==
    (pc = "parse_integer" /\ form.kind = "integer")
        => IF LiteralInRange(form)
           THEN result.st = "Ok" /\ result.out = LiteralValue(form)
           ELSE result.st = "Err"

\* the last arm written with key k
LastArm(arms, k) ==
    arms[CHOOSE j \in 1..Len(arms) : arms[j][1] = k /\ \A i \in (j + 1)..Len(arms) : arms[i][1] # k]

\* C21: for an input /re/ { "k1" f1 ... "kn" fn default g }, parse_pattern_actions
\* rejects it and parse_variable_value returns, through parse_case_block, Case
\* with pattern re, a cases map sending each written key to an Action of the
\* one function of its last arm, and the default pipeline [g].
C21_CaseBlockWithDefault ==
    (form.kind = "case" /\ form.default.some)
        => /\ pc = "parse_pattern_actions" => result.st = "Err"
           /\ pc = "parse_variable_value"
                => /\ result.st = "Ok"
                   /\ result.rest = <<>>
                   /\ result.out.kind = "Case"
                   /\ result.out.pattern = form.re
                   /\ DOMAIN result.out.cases = {form.arms[j][1] : j \in 1..Len(form.arms)}
                   /\ \A k \in DOMAIN result.out.cases :
                         result.out.cases[k]
                             = Action(Functions(<<FnOf(LastArm(form.arms, k)[2])>>))
                   /\ result.out.default = Some(Functions(<<FnOf(form.default.val)>>))

C21_Witness ==
    /\ pc = "parse_variable_value"
    /\ form.kind = "case"
    /\ form.default.some
    /\ Len(form.arms) = 2
    /\ form.arms[1][1] = form.arms[2][1]
    /\ form.arms[1][2] # form.arms[2][2]
    /\ form.default.val.parens
    /\ result.st = "Ok"
    /\ Cardinality(DOMAIN result.out.cases) = 1

(***************************************************************************)
(* Claims about parse_hobbit_hole and parse_file (specification SpecHeader)*)
(***************************************************************************)
\* the VariableTransform a written right-hand side denotes
ValueOf(v) ==
    CASE v.kind = "string" -> VtString(v.text)
      [] v.kind = "integer" -> VtInteger(LiteralValue(v))
      [] v.kind = "pipeline" -> PatternAction(v.re, Functions(FnsOf(v.fns)))

\* the variables written in the (single) variables block of a file
WrittenVarsOf(f) == f.entries[Len(f.entries)].vars

HasVarsBlock(f) ==
    f.kind = "file" /\ f.entries # <<>> /\ f.entries[Len(f.entries)].shape = "vars"

\* the last entry written with key k
LastWritten(vs, k) ==
    vs[CHOOSE j \in 1..Len(vs) : vs[j].key = k /\ \A i \in (j + 1)..Len(vs) : vs[i].key # k]

HobbitHoleReturned == pc \in {"hobbit_done", "file_done", "file_error"}

\* C5: when a variables block lists a key more than once, the variables map
\* of the parsed header holds for each key the value of the last entry
\* written with that key, one entry per distinct key.
C5_LastVariableWins ==
    (HasVarsBlock(form) /\ HobbitHoleReturned)
        => LET vs == WrittenVarsOf(form)
           IN /\ DOMAIN hole.variables = {vs[j].key : j \in 1..Len(vs)}
              /\ \A k \in DOMAIN hole.variables :
                    /\ hole.variables[k].kind = ValueOf(LastWritten(vs, k).value).kind
                    /\ hole.variables[k] = ValueOf(LastWritten(vs, k).value)

C5_Witness ==
    /\ HasVarsBlock(form)
    /\ HobbitHoleReturned
    /\ LET vs == WrittenVarsOf(form)
       IN /\ Len(vs) >= 3
          /\ vs[1].key = vs[3].key
          /\ vs[2].key # vs[1].key
          /\ vs[1].value # vs[3].value
          /\ Cardinality(DOMAIN hole.variables) = 2

\* C7: a header made of the opening fence and the closing fence with no
\* entry between them is accepted by parse_hobbit_hole and yields the
\* default record.
C7_EmptyHeaderAccepted ==
    (form.kind = "file" /\ form.entries = <<>> /\ pc \notin {"start", "loop", "end"})
        => (pc # "hobbit_error" /\ hole = DefaultHobbitHole)

\* C8: a file with n >= 1 non-empty lines after the closing fence is parsed
\* into a ShireFile whose body holds the n lines, one element per line, in
\* source order.
C8_BodyHoldsEveryLine ==
    (form.kind = "file" /\ Len(form.body) >= 1 /\ pc = "file_done")
        => result.out.body = form.body

Key_name == <<"n", "a", "m", "e">>

Key_description == <<"d", "e", "s", "c", "r", "i", "p", "t", "i", "o", "n">>

Key_variables == <<"v", "a", "r", "i", "a", "b", "l", "e", "s">>

RecognizedKeys ==
    {Key_name, Key_description, Key_interaction, Key_actionLocation, Key_variables}

\* the loop is about to read entry k of the written header
AtEntry(k) == pc = "loop" /\ cond_input = RestFrom(form, k)

\* the iteration read the entry and went on
EntryRead == pc' \in {"loop", "end"}

\* C16: a header entry whose key is not name, description, interaction,
\* actionLocation or variables is handled like a name entry: its value must be
\* a quoted string, that string replaces the record's name and no other field
\* changes.
C16_UnknownKeyIsName ==
    [][\A k \in 1..Len(form.entries) :
          (AtEntry(k) /\ form.entries[k].key \notin RecognizedKeys)
              => IF form.entries[k].shape = "quoted"
                 THEN EntryRead /\ hole' = [hole EXCEPT !.name = form.entries[k].text]
                 ELSE pc' = "hobbit_error" /\ hole' = hole]_vars

C16_Witness ==
    /\ pc \in {"loop", "end"}
    /\ Len(form.entries) >= 2
    /\ form.entries[1].key = Key_name
    /\ form.entries[2].key \notin RecognizedKeys
    /\ form.entries[2].shape = "quoted"
    /\ cond_input = RestFrom(form, 3)
    /\ hole.name = form.entries[2].text
    /\ hole.name # form.entries[1].text

\* the two texts differ at most in the case of their letters
SameIgnoringCase(a, b) ==
    Len(a) = Len(b) /\ \A k \in 1..Len(a) : a[k] = b[k] \/ a[k] = FlipCase(b[k])

\* the eight interaction names and their kinds
InteractionKinds ==
    {<<<<"A", "p", "p", "e", "n", "d", "C", "u", "r", "s", "o", "r">>, "AppendCursor">>,
     <<<<"A", "p", "p", "e", "n", "d", "C", "u", "r", "s", "o", "r", "S", "t", "r", "e", "a", "m">>, "AppendCursorStream">>,
     <<<<"O", "u", "t", "p", "u", "t", "F", "i", "l", "e">>, "OutputFile">>,
     <<<<"R", "e", "p", "l", "a", "c", "e", "S", "e", "l", "e", "c", "t", "i", "o", "n">>, "ReplaceSelection">>,
     <<<<"R", "e", "p", "l", "a", "c", "e", "C", "u", "r", "r", "e", "n", "t", "F", "i", "l", "e">>, "ReplaceCurrentFile">>,
     <<<<"I", "n", "s", "e", "r", "t", "B", "e", "f", "o", "r", "e", "S", "e", "l", "e", "c", "t", "i", "o", "n">>, "InsertBeforeSelection">>,
     <<<<"R", "u", "n", "P", "a", "n", "e", "l">>, "RunPanel">>,
     <<<<"O", "n", "P", "a", "s", "t", "e">>, "OnPaste">>}

InteractionOf(t) ==
    IF \E p \in InteractionKinds : SameIgnoringCase(t, p[1])
    THEN (CHOOSE p \in InteractionKinds : SameIgnoringCase(t, p[1]))[2]
    ELSE "RunPanel"

\* C17: the interaction value is matched case-insensitively against the eight
\* names: every spelling of a name maps to its kind, every other value maps to
\* RunPanel, and the entry is read without a parse error.
C17_InteractionIgnoresCase ==
    [][\A k \in 1..Len(form.entries) :
          (AtEntry(k) /\ form.entries[k].key = Key_interaction)
              => /\ EntryRead
                 /\ hole' = [hole EXCEPT
                                !.interaction = Some(InteractionOf(form.entries[k].text))]]_vars

C17_Witness ==
    /\ pc = "end"
    /\ Len(form.entries) = 1
    /\ form.entries[1].key = Key_interaction
    /\ form.entries[1].text \notin InteractionNames
    /\ SameIgnoringCase(form.entries[1].text, <<"I", "n", "s", "e", "r", "t", "B", "e", "f", "o", "r", "e", "S", "e", "l", "e", "c", "t", "i", "o", "n">>)
    /\ hole.interaction = Some("InsertBeforeSelection")

\* the six action locations and their names (ShireActionLocation::location)
LocationKinds ==
    {<<<<"C", "o", "n", "t", "e", "x", "t", "M", "e", "n", "u">>, "ContextMenu">>,
     <<<<"I", "n", "t", "e", "n", "t", "i", "o", "n", "M", "e", "n", "u">>, "IntentionMenu">>,
     <<<<"T", "e", "r", "m", "i", "n", "a", "l", "M", "e", "n", "u">>, "TerminalMenu">>,
     <<<<"C", "o", "m", "m", "i", "t", "M", "e", "n", "u">>, "CommitMenu">>,
     <<<<"R", "u", "n", "P", "a", "n", "e", "l">>, "RunPanel">>,
     <<<<"I", "n", "p", "u", "t", "B", "o", "x">>, "InputBox">>}

LocationOf(t) ==
    IF \E p \in LocationKinds : t = p[1]
    THEN (CHOOSE p \in LocationKinds : t = p[1])[2]
    ELSE "RunPanel"

\* C18: the actionLocation value is matched case-sensitively against the six
\* names: the name of a location maps to that location, every other text,
\* a different-case spelling included, maps to RunPanel.
C18_LocationIsCaseSensitive ==
    [][\A k \in 1..Len(form.entries) :
          (AtEntry(k) /\ form.entries[k].key = Key_actionLocation)
              => /\ EntryRead
                 /\ hole' = [hole EXCEPT
                                !.action_location = Some(LocationOf(form.entries[k].text))]]_vars

C18_Witness ==
    /\ pc = "end"
    /\ Len(form.entries) = 1
    /\ form.entries[1].key = Key_actionLocation
    /\ form.entries[1].text = <<"c", "o", "n", "t", "e", "x", "t", "m", "e", "n", "u">>
    /\ hole.action_location = Some("RunPanel")

HasKey(f, key) == \E k \in 1..Len(f.entries) : f.entries[k].key = key

\* the last entry written with the key
LastEntry(f, key) ==
    f.entries[CHOOSE j \in 1..Len(f.entries) :
                  f.entries[j].key = key /\ \A i \in (j + 1)..Len(f.entries) : f.entries[i].key # key]

OptionIs(o, written, v) == o.some = written /\ (written => o.val = v)

VariablesAre(m, vs) ==
    /\ DOMAIN m = {vs[j].key : j \in 1..Len(vs)}
    /\ \A k \in DOMAIN m :
          /\ m[k].kind = ValueOf(LastWritten(vs, k).value).kind
          /\ m[k] = ValueOf(LastWritten(vs, k).value)

\* every field holds the value of the last entry written with its key, or its default
FieldsAsWritten(f, h) ==
    /\ h.name = (IF HasKey(f, Key_name) THEN LastEntry(f, Key_name).text ELSE <<>>)
    /\ OptionIs(h.description, HasKey(f, Key_description),
                LastEntry(f, Key_description).text)
    /\ OptionIs(h.interaction, HasKey(f, Key_interaction),
                InteractionOf(LastEntry(f, Key_interaction).text))
    /\ OptionIs(h.action_location, HasKey(f, Key_actionLocation),
                LocationOf(LastEntry(f, Key_actionLocation).text))
    /\ VariablesAre(h.variables,
                    IF HasKey(f, Key_variables) THEN LastEntry(f, Key_variables).vars ELSE <<>>)

FieldOf(key) ==
    CASE key = Key_name -> "name"
      [] key = Key_description -> "description"
      [] key = Key_interaction -> "interaction"
      [] key = Key_actionLocation -> "action_location"
      [] key = Key_variables -> "variables"

\* reading an entry of a recognized key changes no field of another key
OtherFieldsKept ==
    \A k \in 1..Len(form.entries) :
        (AtEntry(k) /\ form.entries[k].key \in RecognizedKeys /\ EntryRead)
            => \A fld \in DOMAIN hole \ {FieldOf(form.entries[k].key)} : hole'[fld] = hole[fld]

BodyText(f) == Concat([k \in 1..Len(f.body) |-> f.body[k] \o <<"\n">>])

\* C20: parse_hobbit_hole returns a record only after a closing fence: a
\* header whose text ends after the last value is a parse error, and on
\* success the remaining input is what follows the closing fence and its
\* trailing whitespace.
C20_ClosingFenceRequired ==
    /\ (form.kind = "open" /\ pc \notin {"start", "loop", "end"})
          => (pc = "hobbit_error" /\ result.st = "Err")
    /\ pc = "hobbit_done"
          => (form.kind = "file" /\ result.st = "Ok" /\ result.rest = BodyText(form))

C20_Witness ==
    /\ form.kind = "open"
    /\ Len(form.entries) >= 1
    /\ pc = "hobbit_error"
    /\ cond_input = <<>>
    /\ hole.name # <<>>

\* the iteration at the current position returns a parse error or returns
\* less input than it was given
IterationErrsOrConsumes ==
    \/ header_entry(cond_input, hole).st = "Err"
    \/ /\ header_entry(cond_input, hole).st = "Ok"
       /\ Len(header_entry(cond_input, hole).rest) < Len(cond_input)

\* a step of the header loop returns a parse error, or goes on with less
\* input than it started with and leaves the loop exactly at a fence or at the
\* end of the input
IterationAdvances ==
    pc = "loop"
        => \/ pc' = "hobbit_error"
           \/ /\ pc' \in {"loop", "end"}
              /\ Len(cond_input') < Len(cond_input)
              /\ pc' = "end" <=> (starts_with(cond_input', Fence) \/ cond_input' = <<>>)

\* C23: the header loop of parse_hobbit_hole terminates: each iteration either
\* returns a parse error or consumes at least one character, so the loop ends
\* at a fence, at the end of the input or in an error and never repeats on the
\* same position.
C23_HeaderLoopTerminates ==
    /\ [](pc = "loop" => IterationErrsOrConsumes)
    /\ [][IterationAdvances]_vars

C23_Witness ==
    /\ pc = "end"
    /\ Len(form.entries) = 3
    /\ form.entries[2].key = <<>>
    /\ hole.name = form.entries[3].text
    /\ starts_with(cond_input, Fence)

(***************************************************************************)
(* Claims about the evaluator (specification SpecEval)                     *)
(***************************************************************************)
\* the statement evaluates to a boolean: the evaluate of its variant returns Ok(bool)
YieldsBool(s, variables) ==
    /\ Variant_evaluate(s, variables).st = "Ok"
    /\ Variant_evaluate(s, variables).any.ty = "bool"

BoolOf(s, variables) == Variant_evaluate(s, variables).any.bool

IsOkBool(r, b) == r.st = "Ok" /\ r.any.ty = "bool" /\ r.any.bool = b

\* C9: when both sides of Logical(l, op, r) evaluate to booleans a and b,
\* evaluating it returns a AND b for And and a OR b for Or; it returns an
\* error only when a side is not boolean or op is not And/Or.
C9_LogicalOfBooleans ==
    (pc = "LogicalExpression::evaluate"
        /\ YieldsBool(form.stmt.left, form.variables)
        /\ YieldsBool(form.stmt.right, form.variables)
        /\ form.stmt.operator \in {"And", "Or"})
        => LET a == BoolOf(form.stmt.left, form.variables)
               b == BoolOf(form.stmt.right, form.variables)
           IN IsOkBool(result, IF form.stmt.operator = "And" THEN a /\ b ELSE a \/ b)

\* C10: when the operand of Not(s) evaluates to a boolean b, evaluating the
\* negation returns NOT b; it errors only when s does not evaluate to a boolean.
C10_NotOfBoolean ==
    (pc = "NotExpression::evaluate" /\ YieldsBool(form.stmt.operand, form.variables))
        => IsOkBool(result, ~BoolOf(form.stmt.operand, form.variables))

\* C11: evaluating a MethodCall never panics or aborts: for every receiver,
\* method value, argument list and scope it returns a value or an error value.
C11_MethodCallReturns ==
    pc = "MethodCall::evaluate" => result.st \in {"Ok", "Err"}

\* the left text of a comparison: the String itself, or the scope's text for
\* a Variable, the empty text when the scope does not bind the name
LeftText(s, variables) ==
    IF s.left.fm = "STRING" THEN s.left.text
    ELSE IF s.left.text \in DOMAIN variables THEN variables[s.left.text]
    ELSE <<>>

\* a precedes b in lexicographic order: they agree on the first k characters
\* and then a ends before b does or a has the smaller character
LexLess(a, b) ==
    \E k \in 0..Len(a) :
        /\ k < Len(b)
        /\ SubSeq(a, 1, k) = SubSeq(b, 1, k)
        /\ (k = Len(a) \/ Code(a[k + 1]) < Code(b[k + 1]))

Compared(op, l, r) ==
    CASE op = "Equal" -> l = r
      [] op = "NotEqual" -> l # r
      [] op = "LessThan" -> LexLess(l, r)
      [] op = "GreaterThan" -> LexLess(r, l)
      [] op = "LessEqual" -> l = r \/ LexLess(l, r)
      [] op = "GreaterEqual" -> l = r \/ LexLess(r, l)

ComparisonOperators ==
    {"Equal", "NotEqual", "LessThan", "GreaterThan", "LessEqual", "GreaterEqual"}

\* C12: Comparison(left, op, String(s)) with a comparison operator and left a
\* String or a Variable returns the boolean obtained by comparing the left
\* text (a missing name being the empty text) with s, by equality or by
\* lexicographic order.
C12_ComparisonOfTexts ==
    (pc = "Comparison::evaluate"
        /\ form.stmt.left.fm \in {"STRING", "VARIABLE"}
        /\ form.stmt.right.fm = "STRING"
        /\ form.stmt.operator \in ComparisonOperators)
        => IsOkBool(result, Compared(form.stmt.operator,
                                     LeftText(form.stmt, form.variables),
                                     form.stmt.right.text))

C12_Witness ==
    /\ pc = "Comparison::evaluate"
    /\ form.stmt.left = FM_VARIABLE(<<"x">>)
    /\ form.variables = [n \in {<<"x">>} |-> <<"y">>]
    /\ form.stmt.operator = "LessThan"
    /\ form.stmt.right = FM_STRING(<<"y", "a">>)
    /\ result = Ok(AnyBool(TRUE))

ComparisonRejected(s) ==
    \/ s.operator \in {"And", "Or", "Not"}
    \/ s.left.fm \notin {"STRING", "VARIABLE"}
    \/ s.right.fm # "STRING"

\* C13: Comparison.evaluate returns an error, never a boolean, when its
\* operator is And, Or or Not, when the left value is neither String nor
\* Variable or the right value is not String; the outcome is the same for
\* every scope.
C13_ComparisonRejects ==
    (pc = "Comparison::evaluate" /\ ComparisonRejected(form.stmt))
        => /\ result.st = "Err"
           /\ \A v \in Scopes : Comparison_evaluate(form.stmt, v) = result

C13_Witness ==
    /\ pc = "Comparison::evaluate"
    /\ form.stmt.operator = "And"
    /\ form.stmt.left = FM_VARIABLE(<<"x">>)
    /\ form.stmt.right.fm = "STRING"
    /\ <<"x">> \in DOMAIN form.variables
    /\ result.st = "Err"

\* p occurs in t as a substring
IsSubstring(t, p) == \E k \in 1..(Len(t) - Len(p) + 1) : SubSeq(t, k, k + Len(p) - 1) = p

IsPrefix(t, p) == Len(p) <= Len(t) /\ \A k \in 1..Len(p) : t[k] = p[k]

IsSuffix(t, p) == Len(p) <= Len(t) /\ \A k \in 1..Len(p) : t[Len(t) - Len(p) + k] = p[k]

\* the receiver text of a method call
ReceiverText(s, variables) ==
    IF s.object_name.fm = "STRING" THEN s.object_name.text
    ELSE IF s.object_name.text \in DOMAIN variables THEN variables[s.object_name.text]
    ELSE <<>>

TextTest(m, t, p) ==
    CASE m = M_contains -> IsSubstring(t, p)
      [] m = M_startsWith -> IsPrefix(t, p)
      [] m = M_endsWith -> IsSuffix(t, p)

\* C14: MethodCall with receiver String(s) or Variable(n), method Identifier
\* contains, startsWith or endsWith and one argument String(p) evaluates to
\* the boolean `receiver text contains / starts with / ends with p`.
C14_MethodCallTextTest ==
    (pc = "MethodCall::evaluate"
        /\ form.stmt.object_name.fm \in {"STRING", "VARIABLE"}
        /\ form.stmt.method_name.fm = "IDENTIFIER"
        /\ form.stmt.method_name.text \in {M_contains, M_startsWith, M_endsWith}
        /\ form.stmt.arguments.some
        /\ Len(form.stmt.arguments.val) = 1
        /\ form.stmt.arguments.val[1].fm = "STRING")
        => IsOkBool(result, TextTest(form.stmt.method_name.text,
                                     ReceiverText(form.stmt, form.variables),
                                     form.stmt.arguments.val[1].text))

\* C15: StringComparison.evaluate uses its variable field as literal text: the
\* result is the same for every scope, and StringComparison(s, Contains, p) is
\* true iff s contains p, also when the scope binds the name s to another text.
C15_StringComparisonLiteral ==
    pc = "StringComparison::evaluate"
        => /\ \A v \in Scopes : StringComparison_evaluate(form.stmt, v) = result
           /\ form.stmt.operator = "Contains"
                => IsOkBool(result, IsSubstring(form.stmt.variable, form.stmt.value))

C15_Witness ==
    /\ pc = "StringComparison::evaluate"
    /\ form.stmt.variable = <<"x">>
    /\ form.variables = [n \in {<<"x">>} |-> <<"y">>]
    /\ form.stmt.operator = "Contains"
    /\ form.stmt.value = <<"y">>
    /\ result = Ok(AnyBool(FALSE))

\* the variants whose evaluate StatementType::evaluate hands on
WrappedVariants ==
    {"Comparison", "StringComparison", "LogicalExpression", "NotExpression", "MethodCall",
     "Value"}

\* C22: StatementType::evaluate yields the same outcome as the evaluate of the
\* variant it wraps: it returns Err exactly when the variant's evaluate returns
\* Err, and otherwise returns that same value (a boolean stays a boolean).
C22_SameOutcomeAsVariant ==
    (pc = "StatementType::evaluate" /\ form.stmt.stmt \in WrappedVariants)
        => /\ result.st = "Err" <=> Variant_evaluate(form.stmt, form.variables).st = "Err"
           /\ Variant_evaluate(form.stmt, form.variables).st = "Ok"
                => result = Variant_evaluate(form.stmt, form.variables)

(***************************************************************************)
(* Claims about display (specification SpecDisplay)                        *)
(***************************************************************************)
\* C24: StatementType::display returns the same text as the display of the
\* variant it wraps, for every variant, MethodCall, CaseKeyValue and
\* ConditionCase included.
C24_DisplaySameAsVariant ==
    pc = "StatementType::display" => result.text = Variant_display(form.stmt)

====
